---- MODULE Spec2Model ----
(***************************************************************************)
(* Connection lifecycle core of synergy-screen-monitor: connect_with_retry *)
(* with exponential backoff and publish, for the four client classes       *)
(*   paho_pub : PahoMQTTPublisher (mqtt_clients/paho_client.py) and the    *)
(*              identical MQTTPublisher of waldo.py                        *)
(*   paho_sub : PahoMQTTSubscriber (mqtt_clients/paho_client.py) and the   *)
(*              identical MQTTSubscriber of found-him.py                   *)
(*   nano_pub : NanoMQTTPublisher (mqtt_clients/nanomq_client.py)          *)
(*   nano_sub : NanoMQTTSubscriber (mqtt_clients/nanomq_client.py)         *)
(*                                                                         *)
(* One control thread runs connect_with_retry / publish.  For the Paho     *)
(* classes every client whose network loop is running (loop_start called,  *)
(* loop_stop not) delivers on_connect / on_disconnect from its own thread, *)
(* with no synchronisation against the control thread.  A step of the      *)
(* control thread runs from one access of the shared fields (connected,    *)
(* reconnect_delay) or one blocking call up to the next.                   *)
(***************************************************************************)
EXTENDS Integers, Sequences, FiniteSets, TLC

VARIABLES
    impl,             \* which class this instance is
    pc,               \* position of the control thread
    caller,           \* who called connect_with_retry: "direct" or "publish"
    connected,        \* self.connected
    reconnect_delay,  \* self.reconnect_delay
    client,           \* self.client: 0 is None, otherwise the client's number
    clients,          \* the backend client objects created so far
    attempts,         \* connection attempts made so far
    faults,           \* faults of the environment so far
    tmp,              \* reconnect_delay as read by the doubling statement
    cleaned,          \* has the cleanup of the current failed attempt run
    nsleep,           \* backoff sleeps begun since construction or the last successful connect
    retval,           \* value delivered by connect_with_retry, "none" before it returns
    retConn,          \* self.connected as the returning step read it
    retDelay,         \* self.reconnect_delay when that step returned
    pubMsg,           \* argument of the publish call in progress
    pubEntryConn,     \* self.connected as read on entry of that publish
    pubCwrCalls,      \* connect_with_retry calls made by that publish
    handoffs,         \* backend publish calls made by that publish
    pubOutcome,       \* what the backend publish call did: "ok", "fail", "raise"
    pubResult,        \* value returned by that publish
    lineNo,           \* process_logs: log lines read from stdin so far
    retry_count,      \* process_logs: retry_count of the event in hand
    published,        \* process_logs: published of the event in hand
    waits,            \* time.sleep(wait_time) calls made for the event in hand
    pubTries,         \* publisher.publish calls made for the event in hand
    dropped,          \* lines whose event was given up
    closeCalls,       \* calls of close() so far
    closeRaised,      \* has a call of close() ended with an exception
    srcmod,           \* the module the class comes from
    now,              \* time.time(), in ticks
    last_message_time,\* self.last_message_time, in ticks
    msgKind,          \* the inbound message handled last, "none" before the first
    bells,            \* calls of bell_func made by the handler for that message
    msgEscaped,       \* did an exception leave the handler for that message
    subscribed,       \* the client whose subscription to the topic is in force, 0 if none
    interrupted,      \* has KeyboardInterrupt been raised in the control thread
    running,          \* NanoMQTTSubscriber.running
    msgLoop,          \* has NanoMQ's message loop been started and not stopped
    subReqs,          \* subscribe calls made while handling the last acknowledgement
    pubLog,           \* process_logs: the publisher.publish calls so far, in order
    printed,          \* process_logs: the events whose name was printed, in order
    nanoAvailable,    \* nanomq_client.NANOMQ_AVAILABLE
    request,          \* the factory or constructor call made last
    made,             \* the object that call returned
    raisedErr,        \* the exception that call raised, "none" if it returned
    backends,         \* backend client objects constructed by that call
    lists,            \* the list objects of the factory: the class attribute and the copy handed out
    held,             \* the list object the caller of get_supported_clients holds, "none" before
    rbArgs,           \* retry_with_backoff: the arguments of the decorator
    attempt,          \* retry_with_backoff wrapper: the loop variable
    rbDelay,          \* retry_with_backoff wrapper: the local `delay`
    outcomes,         \* retry_with_backoff wrapper: how each call of func ended, in order
    sleeps,           \* retry_with_backoff wrapper: the arguments of time.sleep, in order
    rbOut,            \* retry_with_backoff wrapper: "idle", "running", or how it ended
    rbExc,            \* retry_with_backoff wrapper: the call of func whose exception it raised, 0 if none
    line,             \* process_logs: the line read from stdin
    message,          \* process_logs: the event built from that line
    offered           \* process_logs: messages handed to publisher.publish for that line

vars == << impl, pc, caller, connected, reconnect_delay, client, clients, attempts,
           faults, tmp, cleaned, nsleep, retval, retConn, retDelay,
           pubMsg, pubEntryConn, pubCwrCalls, handoffs, pubOutcome, pubResult,
           lineNo, retry_count, published, waits, pubTries, dropped,
           closeCalls, closeRaised,
           srcmod, now, last_message_time, msgKind, bells, msgEscaped, subscribed,
           interrupted, running, msgLoop, subReqs, pubLog, printed,
           nanoAvailable, request, made, raisedErr, backends, lists, held,
           rbArgs, attempt, rbDelay, outcomes, sleeps, rbOut, rbExc,
           line, message, offered >>

\* the variables of the subscriber's message handler and of run()
msgVars == << msgKind, bells, msgEscaped >>

subVars == << srcmod, now, last_message_time, msgVars, subscribed, interrupted,
              running, msgLoop, subReqs >>

\* the variables of process_logs and close
logVars == << lineNo, retry_count, published, waits, pubTries, dropped,
              closeCalls, closeRaised, pubLog, printed >>

\* the variables of the factory and of the constructors
facVars == << nanoAvailable, request, made, raisedErr, backends, lists, held >>

\* the variables of the event extraction of process_logs
exVars == << line, message, offered >>

\* the variables of retry_with_backoff
rbVars == << rbArgs, attempt, rbDelay, outcomes, sleeps, rbOut, rbExc >>

auxVars == << facVars, exVars, rbVars >>

(***************************************************************************)
(* Bounds of the model and constants of the program                        *)
(***************************************************************************)
\* Connection attempts (= Paho client objects) of one run.  The broker lets an
\* attempt fail only while fewer than MaxAttempts were made; six failures take
\* the delay 1, 2, 4, 8, 16, 32 to the cap.
MaxAttempts == 7

\* Faults of the environment in one run: a refused or lost connection, a failed
\* publish, an exception of a backend call.
MaxFaults == 1

initial_reconnect_delay == 1

max_reconnect_delay == 60

Messages == {"m1", "m2"}

Topic == "synergy"

Impls == {"paho_pub", "paho_sub", "nano_pub", "nano_sub"}

IsPaho(i) == i \in {"paho_pub", "paho_sub"}

IsPublisher(i) == i \in {"paho_pub", "nano_pub"}

\* The module a class is defined in; found-him.py holds a second copy of the
\* Paho subscriber, waldo.py a second copy of the Paho publisher.
ModuleOf(i) == IF IsPaho(i) THEN "paho_client" ELSE "nanomq_client"

Min(a, b) == IF a <= b THEN a ELSE b

RECURSIVE Pow2(_)
Pow2(n) == IF n = 0 THEN 1 ELSE 2 * Pow2(n - 1)

ClientIds == 1..MaxAttempts

\* A backend client: is its network loop running, the state of its socket
\* ("none": never connected, "connecting": CONNECT sent and no CONNACK yet,
\* "up": CONNACK 0 received, "closed"), and was disconnect() called on it.
NoClient == [loop |-> FALSE, sock |-> "none", disc |-> FALSE]

\* no call of the factory or of a constructor yet
NoRequest == [op |-> "none", name |-> "", broker |-> "", port |-> 0, topic |-> "",
              key |-> "", value |-> "", bell_func |-> "None"]

\* no object returned
NoObject == [cls |-> "none", broker |-> "", port |-> 0, topic |-> "", key |-> "",
             value |-> "", bell_func |-> "None", connected |-> FALSE,
             reconnect_delay |-> 0, client |-> "None"]

\* no event built
NoMessage == [current_desktop |-> << >>, timestamp |-> ""]

(***************************************************************************)
(* The program's decisions, one operator per test or expression            *)
(***************************************************************************)
\* a loop that gives up after three backoff sleeps
LoopGivesUp(conn) == ~conn /\ nsleep < 3

\* `while not self.connected:` of connect_with_retry
LoopContinues(conn) == ~conn

\* a check that takes the end of the wait for an acknowledgement
AckCheckAlways(conn) == TRUE

\* `if self.connected:` after the 10 s acknowledgement wait
AckCheckPasses(conn) == conn

\* `min(self.reconnect_delay * 2, self.max_reconnect_delay)`
Backoff(d) == Min(d * 2, max_reconnect_delay)

\* The subscribers clean the failed client up before time.sleep; the Paho
\* publisher sleeps and doubles first; the NanoMQ publisher never cleans up.
TeardownBeforeSleep(i) == i \in {"paho_sub", "nano_sub"}

HasTeardown(i) == i # "nano_pub"

\* First statement of the `except Exception` block
ExcStage(i) == IF TeardownBeforeSleep(i) THEN "cwr_cleanup" ELSE "cwr_sleep"

\* a publish that reconnects on every call
AlwaysConnect(conn) == TRUE

\* `if not self.connected:` on entry of publish
NeedsConnect(conn) == ~conn

\* a publish that takes an exception of the backend call for a success
PublishNotFailed(outcome) == outcome # "fail"

\* `result.rc != mqtt.MQTT_ERR_SUCCESS` / the truth value NanoMQ's publish returns;
\* an exception of the backend call is not a success
PublishSucceeded(outcome) == outcome = "ok"

\* a backend call at QoS 0
BackendPublishCallQoS0(m) == [topic |-> Topic, payload |-> m, qos |-> 0]

\* `self.client.publish(self.topic, message, qos=1)`
BackendPublishCall(m) == [topic |-> Topic, payload |-> m, qos |-> 1]

\* The broker lets an attempt time out or fail only while attempts are left
EnvMayFail == attempts < MaxAttempts

\* ... and the environment produces a fault only while faults are left as well
EnvMayFault == attempts < MaxAttempts /\ faults < MaxFaults

InCwr == pc \in {"cwr_test", "cwr_wait", "cwr_check", "cwr_cleanup",
                 "cwr_sleep", "cwr_sleeping", "cwr_dbl"}

(***************************************************************************)
(* Initial state: a freshly constructed publisher or subscriber            *)
(***************************************************************************)
\* The fields as __init__ leaves them
Constructed ==
    /\ pc = "idle"
    /\ caller = "direct"
    /\ connected = FALSE
    /\ reconnect_delay = initial_reconnect_delay
    /\ client = IF IsPaho(impl) THEN 0 ELSE 1
    /\ clients = [c \in ClientIds |->
                    IF ~IsPaho(impl) /\ c = 1
                      THEN [loop |-> FALSE, sock |-> "closed", disc |-> FALSE]
                      ELSE NoClient]
    /\ attempts = 0
    /\ faults = 0
    /\ tmp = 0
    /\ cleaned = FALSE
    /\ nsleep = 0
    /\ retval = "none"
    /\ retConn = FALSE
    /\ retDelay = 0
    /\ pubMsg = "none"
    /\ pubEntryConn = FALSE
    /\ pubCwrCalls = 0
    /\ handoffs = << >>
    /\ pubOutcome = "none"
    /\ pubResult = "none"
    /\ lineNo = 0
    /\ retry_count = 0
    /\ published = FALSE
    /\ waits = << >>
    /\ pubTries = 0
    /\ dropped = {}
    /\ closeCalls = 0
    /\ closeRaised = FALSE
    /\ now = 0
    /\ last_message_time = 0
    /\ msgKind = "none"
    /\ bells = 0
    /\ msgEscaped = FALSE
    /\ subscribed = 0
    /\ interrupted = FALSE
    /\ running = FALSE
    /\ msgLoop = FALSE
    /\ subReqs = << >>
    /\ pubLog = << >>
    /\ printed = << >>

\* `SUPPORTED_CLIENTS = ['paho']`
SUPPORTED_CLIENTS == << "paho" >>

\* the list objects: the class attribute MQTTClientFactory.SUPPORTED_CLIENTS and
\* the list made by `.copy()`
ListObjects == {"attr", "copy"}

\* the class body has run: the attribute holds its literal, nothing was copied
FreshLists ==
    /\ lists = [o \in ListObjects |-> IF o = "attr" THEN SUPPORTED_CLIENTS ELSE << >>]
    /\ held = "none"

\* An instance made by calling its class: no factory call is on record.  The
\* NanoMQ classes construct only where the bindings were imported.
FacIdle ==
    /\ nanoAvailable = TRUE
    /\ request = NoRequest
    /\ made = NoObject
    /\ raisedErr = "none"
    /\ backends = 0
    /\ FreshLists

\* no decorated function has been called
NoArgs == [max_retries |-> 0, initial_delay |-> 0, backoff_factor |-> 0, max_delay |-> 0]

RbIdle ==
    /\ rbArgs = NoArgs
    /\ attempt = 0
    /\ rbDelay = 0
    /\ outcomes = << >>
    /\ sleeps = << >>
    /\ rbOut = "idle"
    /\ rbExc = 0

\* process_logs has read no line
ExIdle ==
    /\ line = << >>
    /\ message = NoMessage
    /\ offered = << >>

Init ==
    /\ impl \in Impls
    /\ srcmod = ModuleOf(impl)
    /\ Constructed
    /\ FacIdle
    /\ ExIdle
    /\ RbIdle

retVars == << retval, retConn, retDelay >>

pubVars == << pubMsg, pubEntryConn, pubCwrCalls, handoffs, pubOutcome, pubResult >>

(***************************************************************************)
(* Callbacks run by a Paho client's network loop                           *)
(***************************************************************************)
\* an on_connect that never sets the flag
on_connect_unflagged(rc) ==
    /\ connected' = FALSE
    /\ reconnect_delay' = IF rc = 0 THEN 1 ELSE reconnect_delay
    /\ nsleep' = IF rc = 0 THEN 0 ELSE nsleep

\* on_connect(client, userdata, flags, reason_code, properties)
on_connect(rc) ==
    /\ connected' = (rc = 0)
    /\ reconnect_delay' = IF rc = 0 THEN 1 ELSE reconnect_delay
    /\ nsleep' = IF rc = 0 THEN 0 ELSE nsleep

\* The VERSION2 network loop calls on_disconnect(client, userdata,
\* disconnect_flags, reason_code, properties).  The publishers declare these five
\* parameters; PahoMQTTSubscriber (and found-him.py) declares (client, userdata,
\* rc, properties=None), so the call raises TypeError before the body runs.
DisconnectCallbackRuns(i) == i # "paho_sub"

\* on_disconnect(client, userdata, ...)
on_disconnect ==
    /\ connected' = IF DisconnectCallbackRuns(impl) THEN FALSE ELSE connected
    /\ UNCHANGED << reconnect_delay, nsleep >>

\* The broker's CONNACK with result 0 reaches client c's loop
AckOk(c) ==
    /\ IsPaho(impl)
    /\ clients[c].loop /\ clients[c].sock = "connecting"
    /\ clients' = [clients EXCEPT ![c].sock = "up"]
    /\ on_connect(0)
    /\ UNCHANGED << auxVars, subVars, logVars, impl, pc, caller, client, attempts, faults, tmp, cleaned,
                    retVars, pubVars >>

\* The broker refuses the connection: CONNACK with a non-zero result
AckRefused(c) ==
    /\ IsPaho(impl) /\ EnvMayFault
    /\ clients[c].loop /\ clients[c].sock = "connecting"
    /\ clients' = [clients EXCEPT ![c].sock = "closed"]
    /\ faults' = faults + 1
    /\ on_connect(5)
    /\ UNCHANGED << auxVars, subVars, logVars, impl, pc, caller, client, attempts, tmp, cleaned,
                    retVars, pubVars >>

\* The connection of client c is lost: its loop calls on_disconnect; an exception
\* of the callback ends the loop's thread
ConnLost(c) ==
    /\ IsPaho(impl) /\ EnvMayFault
    /\ clients[c].loop /\ clients[c].sock = "up"
    /\ clients' = [clients EXCEPT ![c] =
                     [@ EXCEPT !.sock = "closed", !.loop = DisconnectCallbackRuns(impl)]]
    /\ faults' = faults + 1
    /\ on_disconnect
    /\ UNCHANGED << auxVars, subVars, logVars, impl, pc, caller, client, attempts, tmp, cleaned,
                    retVars, pubVars >>

\* reconnect_delay_set(min_delay=1, max_delay=120): a running loop reconnects
\* on its own after a lost or refused connection
AutoReconnect(c) ==
    /\ IsPaho(impl)
    /\ clients[c].loop /\ clients[c].sock = "closed" /\ ~clients[c].disc
    /\ clients' = [clients EXCEPT ![c].sock = "connecting"]
    /\ UNCHANGED << auxVars, subVars, logVars, impl, pc, caller, connected, reconnect_delay, client, attempts,
                    faults, tmp, cleaned, nsleep, retVars, pubVars >>

(***************************************************************************)
(* connect_with_retry, run by the control thread                           *)
(***************************************************************************)
\* `return True` / falling off the while loop: v is the value delivered, conn and
\* delay the fields as the returning step leaves them
Return(v, conn, delay) ==
    /\ pc' = IF caller = "publish" THEN "pub_send" ELSE "cwr_ret"
    /\ retval' = v
    /\ retConn' = conn
    /\ retDelay' = delay

\* A call from outside publish: process_logs' initial connection, run()'s
\* initial connection, monitor_connection's `if not self.connected:`
CallConnect ==
    /\ pc = "idle" /\ ~connected
    /\ pc' = "cwr_test"
    /\ caller' = "direct"
    /\ UNCHANGED << auxVars, subVars, logVars, impl, connected, reconnect_delay, client, clients, attempts,
                    faults, tmp, cleaned, nsleep, retVars, pubVars >>

\* The caller goes on after connect_with_retry returned to it
CallerResumes ==
    /\ pc = "cwr_ret"
    /\ pc' = "idle"
    /\ retval' = "none"
    /\ retConn' = FALSE
    /\ retDelay' = 0
    /\ UNCHANGED << auxVars, subVars, logVars, impl, caller, connected, reconnect_delay, client, clients,
                    attempts, faults, tmp, cleaned, nsleep, pubVars >>

\* Paho: a new mqtt.Client, its callbacks, client.connect(...), loop_start()
PahoAttempt ==
    /\ attempts < MaxAttempts
    /\ attempts' = attempts + 1
    /\ client' = attempts + 1
    /\ cleaned' = FALSE
    /\ \E out \in {"sent", "raise"} :
         /\ out = "raise" => (attempts + 1 < MaxAttempts /\ faults < MaxFaults)
         /\ IF out = "sent"
              THEN /\ clients' = [clients EXCEPT ![attempts + 1] =
                                    [loop |-> TRUE, sock |-> "connecting", disc |-> FALSE]]
                   /\ pc' = "cwr_wait"
                   /\ UNCHANGED faults
              ELSE /\ clients' = [clients EXCEPT ![attempts + 1] =
                                    [loop |-> FALSE, sock |-> "none", disc |-> FALSE]]
                   /\ pc' = ExcStage(impl)
                   /\ faults' = faults + 1
    /\ UNCHANGED << auxVars, subVars, logVars, impl, caller, connected, reconnect_delay, tmp, nsleep,
                    retVars, pubVars >>

\* NanoMQ: self.client.connect(...) answers at once; the subscriber then subscribes
NanoAttempt ==
    /\ attempts < MaxAttempts
    /\ attempts' = attempts + 1
    /\ cleaned' = FALSE
    /\ \E out \in {"ok", "false", "raise"}, sub \in {"ok", "fail"} :
         /\ out # "ok" => (attempts + 1 < MaxAttempts /\ sub = "ok")
         /\ out = "raise" => faults < MaxFaults
         /\ sub = "fail" => (impl = "nano_sub" /\ faults < MaxFaults)
         /\ faults' = IF out = "raise" \/ sub = "fail" THEN faults + 1 ELSE faults
         /\ IF out = "ok"
              THEN /\ connected' = TRUE
                   /\ reconnect_delay' = 1
                   /\ nsleep' = 0
                   /\ clients' = [clients EXCEPT ![client].sock = "up"]
                   /\ IF sub = "ok"
                        THEN Return("True", TRUE, 1)
                        ELSE /\ pc' = ExcStage(impl)
                             /\ UNCHANGED retVars
              ELSE /\ pc' = ExcStage(impl)
                   /\ UNCHANGED << connected, reconnect_delay, nsleep, clients, retVars >>
    /\ UNCHANGED << auxVars, subVars, logVars, impl, caller, client, tmp, pubVars >>

\* `while not self.connected:` and, when the loop goes on, the attempt's calls
CwrTest ==
    /\ pc = "cwr_test"
    /\ IF LoopContinues(connected)
         THEN IF IsPaho(impl) THEN PahoAttempt ELSE NanoAttempt
         ELSE /\ Return("None", connected, reconnect_delay)
              /\ UNCHANGED << auxVars, subVars, logVars, impl, caller, connected, reconnect_delay, client, clients,
                              attempts, faults, tmp, cleaned, nsleep, pubVars >>

\* `while not self.connected and (time.time() - start_time) < timeout:` ends,
\* because connected was read True or because the 10 s are over
CwrWaitExit ==
    /\ pc = "cwr_wait"
    /\ connected \/ EnvMayFail
    /\ pc' = "cwr_check"
    /\ UNCHANGED << auxVars, subVars, logVars, impl, caller, connected, reconnect_delay, client, clients, attempts,
                    faults, tmp, cleaned, nsleep, retVars, pubVars >>

\* `if self.connected: return True  else: raise Exception("Connection timeout")`
CwrCheck ==
    /\ pc = "cwr_check"
    /\ IF AckCheckPasses(connected)
         THEN Return("True", connected, reconnect_delay)
         ELSE /\ pc' = ExcStage(impl)
              /\ UNCHANGED retVars
    /\ UNCHANGED << auxVars, subVars, logVars, impl, caller, connected, reconnect_delay, client, clients, attempts,
                    faults, tmp, cleaned, nsleep, pubVars >>

\* `time.sleep(self.reconnect_delay)` begins
CwrSleepBegin ==
    /\ pc = "cwr_sleep"
    /\ nsleep' = nsleep + 1
    /\ pc' = "cwr_sleeping"
    /\ UNCHANGED << auxVars, subVars, logVars, impl, caller, connected, reconnect_delay, client, clients, attempts,
                    faults, tmp, cleaned, retVars, pubVars >>

\* the sleep is over; the doubling statement reads self.reconnect_delay
CwrSleepEnd ==
    /\ pc = "cwr_sleeping"
    /\ tmp' = reconnect_delay
    /\ pc' = "cwr_dbl"
    /\ UNCHANGED << auxVars, subVars, logVars, impl, caller, connected, reconnect_delay, client, clients, attempts,
                    faults, cleaned, nsleep, retVars, pubVars >>

\* `self.reconnect_delay = min(<the value read> * 2, self.max_reconnect_delay)`
CwrDouble ==
    /\ pc = "cwr_dbl"
    /\ reconnect_delay' = Backoff(tmp)
    /\ tmp' = 0
    /\ pc' = IF TeardownBeforeSleep(impl) \/ ~HasTeardown(impl)
               THEN "cwr_test" ELSE "cwr_cleanup"
    /\ UNCHANGED << auxVars, subVars, logVars, impl, caller, connected, client, clients, attempts, faults,
                    cleaned, nsleep, retVars, pubVars >>

\* a teardown whose exceptions leave connect_with_retry
CleanupUncontained(i) == FALSE

\* The teardown of a failed attempt is wrapped in its own try: `except Exception
\* as cleanup_error:` (Paho) or a bare `except:` (NanoMQ subscriber), so what
\* loop_stop() or disconnect() raises is swallowed there.
CleanupContained(i) == TRUE

\* The cleanup of the failed attempt.  Paho: `if self.client:` loop_stop() and
\* disconnect() inside try/except; disconnect() on an open socket may call
\* on_disconnect in the calling thread (a TypeError of that call leaves the
\* socket as it is).  NanoMQ subscriber: disconnect() inside try/except.  An
\* exception of either call is swallowed.
CwrCleanup ==
    /\ pc = "cwr_cleanup"
    /\ cleaned' = TRUE
    /\ \E how \in {"ok", "stop_raises", "disc_raises"}, cb \in BOOLEAN :
         /\ how # "ok" => (EnvMayFault /\ ~cb)
         /\ how = "stop_raises" => IsPaho(impl)
         /\ cb => (IsPaho(impl) /\ clients[client].sock \in {"connecting", "up"})
         /\ faults' = IF how = "ok" THEN faults ELSE faults + 1
         /\ clients' = [clients EXCEPT ![client] =
                          CASE how = "ok" /\ (cb => DisconnectCallbackRuns(impl))
                                 -> [loop |-> FALSE, sock |-> "closed", disc |-> TRUE]
                            [] how = "ok" -> [@ EXCEPT !.loop = FALSE, !.disc = TRUE]
                            [] how = "stop_raises" -> @
                            [] OTHER -> [@ EXCEPT !.loop = FALSE]]
         /\ connected' = IF cb /\ DisconnectCallbackRuns(impl) THEN FALSE ELSE connected
         /\ pc' = IF how # "ok" /\ ~CleanupContained(impl) THEN "cwr_raised"
                  ELSE IF TeardownBeforeSleep(impl) THEN "cwr_sleep" ELSE "cwr_test"
    /\ UNCHANGED << auxVars, subVars, logVars, impl, caller, reconnect_delay, client, attempts, tmp, nsleep,
                    retVars, pubVars >>

(***************************************************************************)
(* publish(message)                                                        *)
(***************************************************************************)
\* Entry of publish: `if not self.connected: self.connect_with_retry()`
CallPublish(m) ==
    /\ pc = "idle" /\ IsPublisher(impl)
    /\ pubMsg' = m
    /\ pubEntryConn' = connected
    /\ IF NeedsConnect(connected)
         THEN /\ pc' = "cwr_test"
              /\ caller' = "publish"
              /\ pubCwrCalls' = 1
         ELSE /\ pc' = "pub_send"
              /\ pubCwrCalls' = 0
              /\ UNCHANGED caller
    /\ UNCHANGED << auxVars, subVars, logVars, impl, connected, reconnect_delay, client, clients, attempts,
                    faults, tmp, cleaned, nsleep, retVars, handoffs, pubOutcome,
                    pubResult >>

\* The try block of publish: the backend call, then the result handling
PubSend ==
    /\ pc = "pub_send"
    /\ \E out \in {"ok", "fail", "raise"} :
         /\ out # "ok" => EnvMayFault
         /\ faults' = IF out = "ok" THEN faults ELSE faults + 1
         /\ handoffs' = Append(handoffs, BackendPublishCall(pubMsg))
         /\ pubOutcome' = out
         /\ IF PublishSucceeded(out)
              THEN /\ pubResult' = "True"
                   /\ UNCHANGED connected
              ELSE /\ connected' = FALSE
                   /\ pubResult' = "False"
    /\ pc' = "pub_done"
    /\ UNCHANGED << auxVars, subVars, logVars, impl, caller, reconnect_delay, client, clients, attempts, tmp,
                    cleaned, nsleep, retVars, pubMsg, pubEntryConn, pubCwrCalls >>

\* The caller of publish goes on with the value publish returned
PubReturn ==
    /\ pc = "pub_done"
    /\ pc' = "idle"
    /\ caller' = "direct"
    /\ retval' = "none"
    /\ retConn' = FALSE
    /\ retDelay' = 0
    /\ pubMsg' = "none"
    /\ pubEntryConn' = FALSE
    /\ pubCwrCalls' = 0
    /\ handoffs' = << >>
    /\ pubOutcome' = "none"
    /\ pubResult' = "none"
    /\ UNCHANGED << auxVars, subVars, logVars, impl, connected, reconnect_delay, client, clients, attempts,
                    faults, tmp, cleaned, nsleep >>

(***************************************************************************)
(* Specifications                                                          *)
(***************************************************************************)
ControlStep ==
    \/ CwrTest
    \/ CwrWaitExit
    \/ CwrCheck
    \/ CwrSleepBegin
    \/ CwrSleepEnd
    \/ CwrDouble
    \/ CwrCleanup
    \/ PubSend

Next ==
    \/ CallConnect
    \/ CallerResumes
    \/ \E m \in Messages : CallPublish(m)
    \/ PubReturn
    \/ ControlStep
    \/ \E c \in ClientIds : AckOk(c)
    \/ \E c \in ClientIds : AckRefused(c)
    \/ \E c \in ClientIds : ConnLost(c)
    \/ \E c \in ClientIds : AutoReconnect(c)

Spec == Init /\ [][Next]_vars

\* The control thread keeps running and a CONNACK the broker sent is delivered
FairSpec ==
    /\ Spec
    /\ WF_vars(ControlStep)
    /\ \A c \in ClientIds : WF_vars(AckOk(c))

\* The loop test finds an attempt left whenever it has to make one
AttemptsSuffice == (pc = "cwr_test" /\ ~connected) => attempts < MaxAttempts

TypeOK ==
    /\ impl \in Impls
    /\ connected \in BOOLEAN
    /\ reconnect_delay \in 1..max_reconnect_delay
    /\ client \in 0..MaxAttempts
    /\ attempts \in 0..MaxAttempts
    /\ faults \in 0..MaxFaults
    /\ nsleep \in 0..MaxAttempts
    /\ Len(handoffs) <= 1

(***************************************************************************)
(* process_logs (waldo.py) and close(): the publisher's caller.  The calls  *)
(* of connect_with_retry and publish are taken whole here, by what they     *)
(* leave behind: connect_with_retry returns with connected True, publish    *)
(* returns True, or returns False with connected False.                     *)
(***************************************************************************)
\* log lines on stdin in one run
MaxLines == 2

\* calls of close() in one run
MaxCloseCalls == 2

\* `max_retries = 3`
max_retries == 3

\* `wait_time = 2 ** retry_count`
WaitTime(rc) == Pow2(rc)

\* a ladder that goes on while attempts are left, whether published or not
LadderIgnoresSuccess(rc, pub) == rc < max_retries

\* a ladder with a fourth attempt
LadderRetriesFour(rc, pub) == rc < max_retries + 1 /\ ~pub

\* `while retry_count < max_retries and not published:`
LadderContinues(rc, pub) == rc < max_retries /\ ~pub

\* a ladder that sleeps after every failure
SleepsAlways(rc) == TRUE

\* `if retry_count < max_retries:` before the sleep
SleepsAfterFailure(rc) == rc < max_retries

plVars == << lineNo, retry_count, published, waits, pubTries, dropped, pubLog, printed >>

closeVars == << closeCalls, closeRaised >>

\* a publisher has been constructed
LogInit == Init /\ IsPublisher(impl)

\* process_logs is entered: the publisher is made and the initial
\* `publisher.connect_with_retry()` is called, before the `try:`
PlStart ==
    /\ pc = "idle" /\ lineNo = 0 /\ closeCalls = 0
    /\ pc' = "pl_connect"
    /\ UNCHANGED << auxVars, subVars, impl, caller, connected, reconnect_delay, client, clients,
                    attempts, faults, tmp, cleaned, nsleep, retVars, pubVars, logVars >>

\* the initial connect_with_retry returns and the `try:` is entered
PlConnected ==
    /\ pc = "pl_connect"
    /\ pc' = "pl_read"
    /\ connected' = TRUE
    /\ client' = 1
    /\ clients' = [clients EXCEPT ![1] = [loop |-> IsPaho(impl), sock |-> "up", disc |-> FALSE]]
    /\ UNCHANGED << auxVars, subVars, impl, caller, reconnect_delay, attempts, faults, tmp, cleaned,
                    nsleep, retVars, pubVars, logVars >>

\* `for line in sys.stdin:` with `match = re.search(...)`: the next line, which
\* holds an event or does not, or the end of the input
PlReadLine ==
    /\ pc = "pl_read"
    /\ \/ /\ lineNo < MaxLines
          /\ lineNo' = lineNo + 1
          /\ \E match \in BOOLEAN :
               IF match
                 THEN /\ retry_count' = 0
                      /\ published' = FALSE
                      /\ waits' = << >>
                      /\ pubTries' = 0
                      /\ pc' = "pl_while"
                 ELSE /\ pc' = "pl_read"
                      /\ UNCHANGED << retry_count, published, waits, pubTries >>
       \/ /\ pc' = "pl_finally"
          /\ UNCHANGED << lineNo, retry_count, published, waits, pubTries >>
    /\ UNCHANGED << auxVars, subVars, impl, caller, connected, reconnect_delay, client, clients, attempts,
                    faults, tmp, cleaned, nsleep, retVars, pubVars, dropped, closeVars, pubLog, printed >>

\* a loop that leaves an event after its first failed attempt and reads on
PlWhileDefers ==
    /\ pc = "pl_while"
    /\ pc' = IF LadderContinues(retry_count, published) /\ retry_count = 0
               THEN "pl_publish" ELSE "pl_read"
    /\ UNCHANGED << auxVars, subVars, impl, caller, connected, reconnect_delay, client,
                    clients, attempts, faults, tmp, cleaned, nsleep, retVars, pubVars,
                    logVars >>

\* `while retry_count < max_retries and not published:`
PlWhile ==
    /\ pc = "pl_while"
    /\ IF LadderContinues(retry_count, published)
         THEN /\ pc' = "pl_publish"
              /\ UNCHANGED dropped
         ELSE /\ pc' = "pl_read"
              /\ dropped' = IF published THEN dropped ELSE dropped \cup {lineNo}
    /\ UNCHANGED << auxVars, subVars, impl, caller, connected, reconnect_delay, client, clients, attempts,
                    faults, tmp, cleaned, nsleep, retVars, pubVars, lineNo, retry_count,
                    published, waits, pubTries, closeVars, pubLog, printed >>

\* `if publisher.publish(message):` and both branches up to the sleep; the
\* True branch prints the name: `print(f"{system_name}")`, `published = True`
PlPublish ==
    /\ pc = "pl_publish"
    /\ pubTries' = pubTries + 1
    /\ \E out \in {"ok", "fail", "raise"} :
         /\ pubLog' = Append(pubLog, [line |-> lineNo, ok |-> PublishSucceeded(out)])
         /\ IF PublishSucceeded(out)
              THEN /\ printed' = Append(printed, lineNo)
                   /\ published' = TRUE
                   /\ connected' = TRUE
                   /\ clients' = [clients EXCEPT ![client] =
                                    [loop |-> IsPaho(impl), sock |-> "up", disc |-> FALSE]]
                   /\ pc' = "pl_while"
                   /\ UNCHANGED << retry_count, waits >>
              ELSE /\ connected' = FALSE
                   /\ retry_count' = retry_count + 1
                   /\ IF SleepsAfterFailure(retry_count + 1)
                        THEN /\ waits' = Append(waits, WaitTime(retry_count + 1))
                             /\ pc' = "pl_sleep"
                        ELSE /\ pc' = "pl_while"
                             /\ UNCHANGED waits
                   /\ UNCHANGED << published, clients, printed >>
    /\ UNCHANGED << auxVars, subVars, impl, caller, reconnect_delay, client, attempts, faults, tmp,
                    cleaned, nsleep, retVars, pubVars, lineNo, dropped, closeVars >>

\* `time.sleep(wait_time)` is over
PlWake ==
    /\ pc = "pl_sleep"
    /\ pc' = "pl_while"
    /\ UNCHANGED << auxVars, subVars, impl, caller, connected, reconnect_delay, client, clients, attempts,
                    faults, tmp, cleaned, nsleep, retVars, pubVars, logVars >>

\* The body of close().  Paho: `if self.client:` loop_stop(), disconnect(), with
\* nothing around them; disconnect() on an open socket may run on_disconnect in
\* the calling thread.  NanoMQ: `if self.connected:` disconnect(), connected = False.
close ==
    /\ closeCalls' = closeCalls + 1
    /\ IF IsPaho(impl)
         THEN IF client # 0
                THEN \E how \in {"ok", "stop_raises", "disc_raises"}, cb \in BOOLEAN :
                       /\ cb => (how = "ok" /\ clients[client].sock \in {"connecting", "up"})
                       /\ closeRaised' = (closeRaised \/ how # "ok")
                       /\ clients' = [clients EXCEPT ![client] =
                                        CASE how = "ok" -> [loop |-> FALSE, sock |-> "closed",
                                                            disc |-> TRUE]
                                          [] how = "stop_raises" -> @
                                          [] OTHER -> [@ EXCEPT !.loop = FALSE]]
                       /\ connected' = IF cb THEN FALSE ELSE connected
                ELSE UNCHANGED << closeRaised, clients, connected >>
         ELSE IF connected
                THEN \E how \in {"ok", "disc_raises"} :
                       /\ closeRaised' = (closeRaised \/ how # "ok")
                       /\ clients' = IF how = "ok"
                                       THEN [clients EXCEPT ![client].sock = "closed"]
                                       ELSE clients
                       /\ connected' = IF how = "ok" THEN FALSE ELSE connected
                ELSE UNCHANGED << closeRaised, clients, connected >>

\* `finally: publisher.close()` of process_logs
PlFinally ==
    /\ pc = "pl_finally"
    /\ close
    /\ pc' = "pl_done"
    /\ UNCHANGED << auxVars, subVars, impl, caller, reconnect_delay, client, attempts, faults, tmp,
                    cleaned, nsleep, retVars, pubVars, plVars >>

\* the statements of process_logs inside its `try:`
PlGuardedPcs == {"pl_read", "pl_while", "pl_publish", "pl_sleep"}

\* An exception ends what process_logs is doing: a KeyboardInterrupt at any
\* point, or an unexpected exception of a statement of the loop.  Inside the
\* `try:` it is caught (`except KeyboardInterrupt:`, `except Exception as e:`)
\* and the `finally:` runs; during the initial connect_with_retry, which is
\* before the `try:`, it leaves process_logs as it is.
PlInterrupt(kind) ==
    /\ \/ pc \in PlGuardedPcs
       \/ pc = "pl_connect" /\ kind = "KeyboardInterrupt"
    /\ pc' = IF pc \in PlGuardedPcs THEN "pl_finally" ELSE "pl_raised"
    /\ UNCHANGED << auxVars, subVars, impl, caller, connected, reconnect_delay, client, clients,
                    attempts, faults, tmp, cleaned, nsleep, retVars, pubVars, logVars >>

\* close() called by any other owner of the publisher: on a publisher that
\* never connected, or again after process_logs closed it
CallClose ==
    /\ pc \in {"idle", "pl_done"}
    /\ closeCalls < MaxCloseCalls
    /\ close
    /\ pc' = "pl_done"
    /\ UNCHANGED << auxVars, subVars, impl, caller, reconnect_delay, client, attempts, faults, tmp,
                    cleaned, nsleep, retVars, pubVars, plVars >>

LogNext ==
    \/ PlStart
    \/ PlConnected
    \/ \E kind \in {"KeyboardInterrupt", "Exception"} : PlInterrupt(kind)
    \/ PlReadLine
    \/ PlWhile
    \/ PlPublish
    \/ PlWake
    \/ PlFinally
    \/ CallClose

LogSpec == LogInit /\ [][LogNext]_vars

(***************************************************************************)
(* retry_with_backoff (utils.py): the wrapper the decorator returns.  The   *)
(* delays are whole seconds; func ends by returning, by raising an          *)
(* exception of the `exceptions` tuple, or by raising another exception.    *)
(***************************************************************************)
\* the largest max_retries of a decorated function
MaxRbRetries == 2

\* the largest initial_delay, backoff_factor and max_delay
MaxRbDelay == 3

RbArgSets ==
    [max_retries : (0 - 1)..MaxRbRetries, initial_delay : 1..MaxRbDelay,
     backoff_factor : 1..MaxRbDelay, max_delay : 1..MaxRbDelay]

\* how a call of func ends
FuncOutcomes == {"ok", "retryable", "other"}

RECURSIVE Pow(_, _)
Pow(b, e) == IF e = 0 THEN 1 ELSE b * Pow(b, e - 1)

\* `delay = initial_delay`
FirstDelay(a) == a.initial_delay

\* `delay = min(delay * backoff_factor, max_delay)`
NextDelay(d, a) == Min(d * a.backoff_factor, a.max_delay)

\* `if attempt == max_retries:`
LastAttempt(i, a) == i = a.max_retries

rbKeep == << impl, pc, caller, connected, reconnect_delay, client, clients, attempts,
            faults, tmp, cleaned, nsleep, retVars, pubVars, subVars, logVars, facVars,
            exVars >>

\* The decorated function is called: `delay = initial_delay`,
\* `last_exception = None`, `for attempt in range(max_retries + 1):`
RbCall(a) ==
    /\ rbOut = "idle"
    /\ rbArgs' = a
    /\ rbDelay' = FirstDelay(a)
    /\ attempt' = 0
    /\ rbOut' = "running"
    /\ UNCHANGED << rbKeep, outcomes, sleeps, rbExc >>

\* One iteration: `return func(*args, **kwargs)` inside try; `except
\* exceptions as e:` re-raises at the last attempt and otherwise sleeps and
\* sets the next delay; another exception leaves the wrapper at once
RbAttempt(out) ==
    /\ rbOut = "running"
    /\ attempt <= rbArgs.max_retries
    /\ outcomes' = Append(outcomes, out)
    /\ CASE out = "ok" ->
              /\ rbOut' = "returned"
              /\ UNCHANGED << attempt, rbDelay, sleeps, rbExc >>
         [] out = "other" ->
              /\ rbOut' = "propagated"
              /\ rbExc' = Len(outcomes) + 1
              /\ UNCHANGED << attempt, rbDelay, sleeps >>
         [] OTHER ->
              IF LastAttempt(attempt, rbArgs)
                THEN /\ rbOut' = "raised"
                     /\ rbExc' = Len(outcomes) + 1
                     /\ UNCHANGED << attempt, rbDelay, sleeps >>
                ELSE /\ sleeps' = Append(sleeps, rbDelay)
                     /\ rbDelay' = NextDelay(rbDelay, rbArgs)
                     /\ attempt' = attempt + 1
                     /\ UNCHANGED << rbOut, rbExc >>
    /\ UNCHANGED << rbKeep, rbArgs >>

\* The range is exhausted without a return or a raise (max_retries + 1 <= 0):
\* `if last_exception:` is False, `raise RuntimeError(...)`
RbLoopEnd ==
    /\ rbOut = "running"
    /\ attempt > rbArgs.max_retries
    /\ rbOut' = "runtime_error"
    /\ UNCHANGED << rbKeep, rbArgs, attempt, rbDelay, outcomes, sleeps, rbExc >>

RbInit == Init /\ impl = "paho_pub"

RbNext ==
    \/ \E a \in RbArgSets : RbCall(a)
    \/ \E out \in FuncOutcomes : RbAttempt(out)
    \/ RbLoopEnd

RetrySpec == RbInit /\ [][RbNext]_vars

(***************************************************************************)
(* MQTTClientFactory (mqtt_clients/factory.py) and the constructors.  A call  *)
(* leaves on record what was asked (request), the object returned (made),     *)
(* the exception raised (raisedErr) and the backend client objects it built   *)
(* (backends).  No constructor connects: attempts stays as it is.             *)
(***************************************************************************)
\* the backends the repository implements: paho_client.py and nanomq_client.py
ImplementedBackends == {"paho", "nanomq"}

\* names a caller may pass as client_type
ClientNames == {"paho", "nanomq", "mosquitto"}

Brokers == {"vault.local", "localhost"}

Ports == {1883, 8883}

Topics == {"synergy", "desk"}

Keys == {"current_desktop"}

Values == {"studio", "den"}

BellFuncs == {"None", "bell"}

\* `client_type not in MQTTClientFactory.SUPPORTED_CLIENTS` is False: the
\* attribute is read at every call
IsSupported(name) == \E k \in 1..Len(lists["attr"]) : lists["attr"][k] = name

\* the value of get_supported_clients(): the elements of the attribute
get_supported_clients == lists["attr"]

\* a get_supported_clients that returns the attribute itself
SharedList == "attr"

\* the object get_supported_clients() returns:
\* `return MQTTClientFactory.SUPPORTED_CLIENTS.copy()`, a new list
ReturnedList == "copy"

\* elements a list of the model holds at most
MaxListLen == 2

PublisherRequest(op, name, b, p, t) ==
    [op |-> op, name |-> name, broker |-> b, port |-> p, topic |-> t,
     key |-> "", value |-> "", bell_func |-> "None"]

SubscriberRequest(op, name, b, p, t, k, v, f) ==
    [op |-> op, name |-> name, broker |-> b, port |-> p, topic |-> t,
     key |-> k, value |-> v, bell_func |-> f]

\* PahoMQTTPublisher.__init__: the fields, `self.client = None`
PahoPublisherObject(b, p, t) ==
    [cls |-> "PahoMQTTPublisher", broker |-> b, port |-> p, topic |-> t, key |-> "",
     value |-> "", bell_func |-> "None", connected |-> FALSE, reconnect_delay |-> 1,
     client |-> "None"]

\* PahoMQTTSubscriber.__init__
PahoSubscriberObject(b, p, t, k, v, f) ==
    [cls |-> "PahoMQTTSubscriber", broker |-> b, port |-> p, topic |-> t, key |-> k,
     value |-> v, bell_func |-> f, connected |-> FALSE, reconnect_delay |-> 1,
     client |-> "None"]

\* NanoMQTTPublisher.__init__ past the test of NANOMQ_AVAILABLE
NanoPublisherObject(b, p, t) ==
    [cls |-> "NanoMQTTPublisher", broker |-> b, port |-> p, topic |-> t, key |-> "",
     value |-> "", bell_func |-> "None", connected |-> FALSE, reconnect_delay |-> 1,
     client |-> "NanoMQTTClient"]

\* NanoMQTTSubscriber.__init__ past the test of NANOMQ_AVAILABLE
NanoSubscriberObject(b, p, t, k, v, f) ==
    [cls |-> "NanoMQTTSubscriber", broker |-> b, port |-> p, topic |-> t, key |-> k,
     value |-> v, bell_func |-> f, connected |-> FALSE, reconnect_delay |-> 1,
     client |-> "NanoMQTTClient"]

\* the call ends with exception e and returns nothing
Raises(e) ==
    /\ raisedErr' = e
    /\ made' = NoObject
    /\ backends' = 0

\* the call returns object o, having built n backend client objects
Returns(o, n) ==
    /\ raisedErr' = "none"
    /\ made' = o
    /\ backends' = n

\* what the factory and the constructors leave alone
facKeep == << impl, pc, caller, connected, reconnect_delay, client, clients, attempts,
             faults, tmp, cleaned, nsleep, retVars, pubVars, subVars, logVars, exVars,
             rbVars, nanoAvailable, lists, held >>

\* what a call of get_supported_clients and its caller leave alone
listKeep == << impl, pc, caller, connected, reconnect_delay, client, clients, attempts,
              faults, tmp, cleaned, nsleep, retVars, pubVars, subVars, logVars, exVars,
              rbVars, nanoAvailable, request, made, raisedErr, backends >>

\* MQTTClientFactory.get_supported_clients() is called: the caller holds the
\* list returned, which has the elements of the attribute
CallGetSupportedClients ==
    /\ lists' = [lists EXCEPT ![ReturnedList] = get_supported_clients]
    /\ held' = ReturnedList
    /\ UNCHANGED listKeep

\* The caller changes the list it holds: list.append(n) or list.clear()
MutateReturned(how, n) ==
    /\ held # "none"
    /\ how = "append" => Len(lists[held]) < MaxListLen
    /\ how = "clear" => lists[held] # << >>
    /\ lists' = [lists EXCEPT ![held] = IF how = "append" THEN Append(@, n) ELSE << >>]
    /\ UNCHANGED << listKeep, held >>

\* a factory that falls back to DEFAULT_CLIENT for a name it does not know
create_publisher_lenient(name, b, p, t) ==
    /\ request' = PublisherRequest("create_publisher", name, b, p, t)
    /\ Returns(PahoPublisherObject(b, p, t), 0)
    /\ UNCHANGED facKeep

\* MQTTClientFactory.create_publisher(client_type, broker_address, port, topic)
create_publisher(name, b, p, t) ==
    /\ request' = PublisherRequest("create_publisher", name, b, p, t)
    /\ IF ~IsSupported(name)
         THEN Raises("ValueError")
         ELSE IF name = "paho"
                THEN Returns(PahoPublisherObject(b, p, t), 0)
                ELSE Raises("ValueError")
    /\ UNCHANGED facKeep

\* MQTTClientFactory.create_subscriber(client_type, broker, port, topic, key,
\* value, bell_func)
create_subscriber(name, b, p, t, k, v, f) ==
    /\ request' = SubscriberRequest("create_subscriber", name, b, p, t, k, v, f)
    /\ IF ~IsSupported(name)
         THEN Raises("ValueError")
         ELSE IF name = "paho"
                THEN Returns(PahoSubscriberObject(b, p, t, k, v, f), 0)
                ELSE Raises("ValueError")
    /\ UNCHANGED facKeep

\* a constructor that builds its client before it looks at NANOMQ_AVAILABLE
NanoMQTTPublisherClientFirst(b, p, t) ==
    /\ request' = PublisherRequest("NanoMQTTPublisher", "nanomq", b, p, t)
    /\ raisedErr' = IF nanoAvailable THEN "none" ELSE "RuntimeError"
    /\ made' = IF nanoAvailable THEN NanoPublisherObject(b, p, t) ELSE NoObject
    /\ backends' = 1
    /\ UNCHANGED facKeep

\* NanoMQTTPublisher(broker_address, port, topic): `if not NANOMQ_AVAILABLE:
\* raise RuntimeError(...)`, the fields, nanomq_bindings.NanoMQTTClient(...)
NanoMQTTPublisher(b, p, t) ==
    /\ request' = PublisherRequest("NanoMQTTPublisher", "nanomq", b, p, t)
    /\ IF ~nanoAvailable
         THEN Raises("RuntimeError")
         ELSE Returns(NanoPublisherObject(b, p, t), 1)
    /\ UNCHANGED facKeep

\* NanoMQTTSubscriber(broker, port, topic, key, value, bell_func)
NanoMQTTSubscriber(b, p, t, k, v, f) ==
    /\ request' = SubscriberRequest("NanoMQTTSubscriber", "nanomq", b, p, t, k, v, f)
    /\ IF ~nanoAvailable
         THEN Raises("RuntimeError")
         ELSE Returns(NanoSubscriberObject(b, p, t, k, v, f), 1)
    /\ UNCHANGED facKeep

\* the module nanomq_client has been imported, with or without the bindings;
\* nothing has been built
FacInit ==
    /\ impl = "paho_pub"
    /\ srcmod = ModuleOf(impl)
    /\ Constructed
    /\ ExIdle
    /\ RbIdle
    /\ nanoAvailable \in BOOLEAN
    /\ request = NoRequest
    /\ made = NoObject
    /\ raisedErr = "none"
    /\ backends = 0
    /\ FreshLists

FacNext ==
    \/ \E name \in ClientNames, b \in Brokers, p \in Ports, t \in Topics :
         create_publisher(name, b, p, t)
    \/ \E name \in ClientNames, b \in Brokers, p \in Ports, t \in Topics,
          k \in Keys, v \in Values, f \in BellFuncs :
         create_subscriber(name, b, p, t, k, v, f)
    \/ \E b \in Brokers, p \in Ports, t \in Topics : NanoMQTTPublisher(b, p, t)
    \/ \E b \in Brokers, p \in Ports, t \in Topics, k \in Keys, v \in Values,
          f \in BellFuncs :
         NanoMQTTSubscriber(b, p, t, k, v, f)
    \/ CallGetSupportedClients
    \/ \E how \in {"append", "clear"}, n \in ClientNames : MutateReturned(how, n)

FactorySpec == FacInit /\ [][FacNext]_vars

(***************************************************************************)
(* The event extraction of process_logs: one pass of the body of            *)
(* `for line in sys.stdin:` up to the first publisher.publish(message), for  *)
(* a line given as its sequence of characters.                              *)
(***************************************************************************)
\* pieces a line is put together from
MaxPieces == 4

\* the four characters `to "` of the pattern
Marker == << "t", "o", " ", "\"" >>

Pieces == {Marker, << "-" >>, << "a" >>, << "t", "o" >>, << " " >>, << "\"" >>}

RECURSIVE Flatten(_)
Flatten(ps) == IF ps = << >> THEN << >> ELSE Head(ps) \o Flatten(Tail(ps))

\* the lines stdin may deliver
Lines == UNION {{Flatten(ps) : ps \in [1..n -> Pieces]} : n \in 0..MaxPieces}

\* `datetime.now().isoformat()`: the microseconds are left out when they are 0
Stamps == {"2024-05-01T10:00:00", "2024-05-01T10:00:00.250000"}

RECURSIVE RunLength(_, _)
\* the characters `[^-]+` takes from position i on: greedy, up to the first "-"
\* or the end of the line
RunLength(l, i) ==
    IF i > Len(l) \/ l[i] = "-" THEN 0 ELSE 1 + RunLength(l, i + 1)

\* a pattern whose group may be empty
MatchAtMarkerOnly(l, i) == i + 3 <= Len(l) /\ SubSeq(l, i, i + 3) = Marker

\* the pattern r'to "([^-]+)' tried at position i
MatchAt(l, i) ==
    /\ i + 3 <= Len(l)
    /\ SubSeq(l, i, i + 3) = Marker
    /\ RunLength(l, i + 4) >= 1

RECURSIVE Search(_, _)
\* re.search(pattern, line): the leftmost position from i on where the pattern
\* matches, 0 for None
Search(l, i) ==
    IF i > Len(l) THEN 0
    ELSE IF MatchAt(l, i) THEN i
    ELSE Search(l, i + 1)

\* match.group(1)
Group1(l, i) == SubSeq(l, i + 4, i + 3 + RunLength(l, i + 4))

\* process_logs is connected and a line is on stdin
ExInit ==
    /\ impl = "paho_pub"
    /\ srcmod = ModuleOf(impl)
    /\ Constructed
    /\ FacIdle
    /\ RbIdle
    /\ line \in Lines
    /\ message = NoMessage
    /\ offered = << >>

\* what the extraction leaves alone
exKeep == << impl, caller, connected, reconnect_delay, client, clients, attempts, faults,
            tmp, cleaned, nsleep, retVars, pubVars, subVars, facVars, rbVars, lineNo, waits,
            pubTries, dropped, closeVars, pubLog, printed >>

\* `match = re.search(r'to "([^-]+)', line)`, `if match:` the message and the
\* variables of the retry loop
PlExtract ==
    /\ pc = "idle"
    /\ LET at == Search(line, 1)
       IN  IF at # 0
             THEN /\ \E ts \in Stamps :
                       message' = [current_desktop |-> Group1(line, at), timestamp |-> ts]
                  /\ retry_count' = 0
                  /\ published' = FALSE
                  /\ pc' = "pl_while"
             ELSE /\ pc' = "pl_read"
                  /\ UNCHANGED << message, retry_count, published >>
    /\ UNCHANGED << exKeep, line, offered >>

\* `while retry_count < max_retries and not published:` entered for the first
\* time, and the call `publisher.publish(message)`
PlOffer ==
    /\ pc = "pl_while" /\ offered = << >>
    /\ LadderContinues(retry_count, published)
    /\ offered' = Append(offered, message)
    /\ pc' = "pl_publish"
    /\ UNCHANGED << exKeep, line, message, retry_count, published >>

ExNext ==
    \/ PlExtract
    \/ PlOffer

ExtractSpec == ExInit /\ [][ExNext]_vars

(***************************************************************************)
(* The subscriber: the message handler, run() and the supervision loop.     *)
(* connect_with_retry is taken here in the subscriber's order (attempt,     *)
(* acknowledgement wait, cleanup, sleep and doubling) with one step for     *)
(* each blocking call.                                                      *)
(***************************************************************************)
\* the clock stops at MaxTime ticks
MaxTime == 4

\* connection attempts of one run of run(); the broker lets an attempt fail
\* only while fewer were made
MaxRunAttempts == 3

\* seconds in a tick of the clock
TickSeconds == 60

\* `if time.time() - self.last_message_time > 120:`
stale_threshold == 120

SubModules == {"paho_client", "found_him", "nanomq_client"}

\* a handler whose module imports json
HasJsonAlways(mod) == TRUE

\* paho_client.py imports sys, os, time, logging, platform, subprocess and
\* paho.mqtt.client, and no json; found-him.py and nanomq_client.py import json
HasJson(mod) == mod # "paho_client"

\* deliveries: a JSON object holding the rule's key with the rule's value
\* ("match_raising": and a bell_func that raises), with another value, without
\* the key; a payload that is no JSON; and JSON that is no object: a number,
\* null, a string that contains the key, a list that holds the key
MsgKinds == {"match", "differ", "absent", "malformed",
             "match_raising", "number", "null", "text", "list"}

\* json.loads(...) returns
Decodes(k) == k # "malformed"

\* json.loads(...) returns a dict
IsObject(k) == k \in {"match", "match_raising", "differ", "absent"}

\* `self.key in payload`: a dict tests its keys, a str tests for a substring,
\* a list tests its elements; an int, a float, a bool or None raises TypeError
KeyTest(k) ==
    CASE k \in {"number", "null"} -> "raises"
      [] k = "absent" -> "false"
      [] OTHER -> "true"

\* `payload[self.key]`: a str or a list indexed by a str raises TypeError
LookupRaises(k) == ~IsObject(k)

\* `self.key in payload and payload[self.key] == self.value`
RuleMatches(k) == k \in {"match", "match_raising"}

\* `self.bell_func()` raises
BellRaises(k) == k = "match_raising"

\* The statements after json.loads raise an exception (a TypeError of the
\* test or of the lookup, or what bell_func raises)
BodyRaises(k) ==
    \/ KeyTest(k) = "raises"
    \/ KeyTest(k) = "true" /\ LookupRaises(k)
    \/ KeyTest(k) = "true" /\ ~LookupRaises(k) /\ RuleMatches(k) /\ BellRaises(k)

\* calls of bell_func made by the handler for a decoded payload
BellCalls(k) ==
    IF KeyTest(k) = "true" /\ ~LookupRaises(k) /\ RuleMatches(k) THEN 1 ELSE 0

\* a handler whose only except clause is `except json.JSONDecodeError:`
CatchesDecodeErrorOnly(mod) == FALSE

\* `except Exception as e:` after `except json.JSONDecodeError:`
CatchesException(mod) == TRUE

\* the elapsed time test of the NanoMQ supervision loop
Stale == (now - last_message_time) * TickSeconds > stale_threshold

\* ticks after which a silent subscriber is stale
RoomTicks == (stale_threshold \div TickSeconds) + 1

\* `self.client.is_connected()`
BackendUp == client # 0 /\ clients[client].sock = "up"

RunCwrPcs == {"rc_test", "rc_wait", "rc_cleanup", "rc_sleep"}

MonPcs == {"mon_test", "mon_check", "mon_sleep"}

\* a subscriber has been constructed (bell_func given)
SubInit ==
    /\ impl \in {"paho_sub", "nano_sub"}
    /\ srcmod \in IF IsPaho(impl) THEN {"paho_client", "found_him"} ELSE {"nanomq_client"}
    /\ Constructed
    /\ FacIdle
    /\ ExIdle
    /\ RbIdle

\* The handler with the stamp left out
on_message_unstamped(k) ==
    /\ UNCHANGED last_message_time
    /\ msgKind' = k
    /\ IF HasJson(srcmod)
         THEN /\ bells' = IF Decodes(k) THEN BellCalls(k) ELSE 0
              /\ msgEscaped' = (Decodes(k) /\ BodyRaises(k) /\ ~CatchesException(srcmod))
         ELSE /\ bells' = 0
              /\ msgEscaped' = TRUE

\* on_message(client, userdata, msg) / _on_message(topic, payload): the stamp,
\* then json.loads inside try; `except json.JSONDecodeError` and `except Exception`
\* catch what the body raises, but where json is no name of the module both
\* json.loads and the except clause raise NameError, which leaves the handler
on_message(k) ==
    /\ last_message_time' = now
    /\ msgKind' = k
    /\ IF HasJson(srcmod)
         THEN /\ bells' = IF Decodes(k) THEN BellCalls(k) ELSE 0
              /\ msgEscaped' = (Decodes(k) /\ BodyRaises(k) /\ ~CatchesException(srcmod))
         ELSE /\ bells' = 0
              /\ msgEscaped' = TRUE

\* A delivery that drops the connection flag
DeliverDisconnecting(k) ==
    /\ pc # "run_exit"
    /\ subscribed # 0 /\ clients[subscribed].sock = "up"
    /\ IF IsPaho(impl) THEN clients[subscribed].loop ELSE msgLoop
    /\ on_message(k)
    /\ connected' = FALSE
    /\ clients' = clients
    /\ UNCHANGED << impl, pc, caller, reconnect_delay, client, attempts, faults,
                    tmp, cleaned, nsleep, retVars, pubVars, logVars, auxVars, srcmod, now,
                    subscribed, subReqs, interrupted, running, msgLoop >>

\* The broker delivers a message of the topic to the subscribed client, whose
\* network loop (Paho) or message loop (NanoMQ) calls the handler.  An
\* exception that leaves a Paho callback ends the loop's thread.
Deliver(k) ==
    /\ pc # "run_exit"
    /\ subscribed # 0 /\ clients[subscribed].sock = "up"
    /\ IF IsPaho(impl) THEN clients[subscribed].loop ELSE msgLoop
    /\ on_message(k)
    /\ clients' = IF IsPaho(impl) /\ msgEscaped'
                    THEN [clients EXCEPT ![subscribed].loop = FALSE]
                    ELSE clients
    /\ UNCHANGED << impl, pc, caller, connected, reconnect_delay, client, attempts,
                    faults, tmp, cleaned, nsleep, retVars, pubVars, logVars, auxVars, srcmod,
                    now, subscribed, subReqs, interrupted, running, msgLoop >>

\* time passes
Tick ==
    /\ now < MaxTime
    /\ now' = now + 1
    /\ UNCHANGED << impl, pc, caller, connected, reconnect_delay, client, clients,
                    attempts, faults, tmp, cleaned, nsleep, retVars, pubVars, logVars, auxVars,
                    srcmod, last_message_time, msgVars, subscribed, subReqs, interrupted,
                    running, msgLoop >>

\* what no step of the subscriber touches
idleVars == << impl, tmp, cleaned, nsleep, retVars, pubVars, logVars, auxVars, srcmod >>

timeVars == << now, last_message_time, msgVars >>

runFlags == << interrupted, running, msgLoop >>

\* Where connect_with_retry returns to: run() before the supervision loop, or
\* the supervision loop's `time.sleep(10)`
AfterCwr == IF caller = "monitor" THEN "mon_sleep"
            ELSE IF IsPaho(impl) THEN "mon_check" ELSE "run_startloop"

\* a subscription at QoS 0
SubscribeCallQoS0 == [topic |-> Topic, qos |-> 0]

\* `client.subscribe(self.topic, qos=1)`
SubscribeCall == [topic |-> Topic, qos |-> 1]

\* an on_connect that subscribes whatever the result
sub_on_connect_always(rc, c) ==
    /\ connected' = (rc = 0)
    /\ reconnect_delay' = IF rc = 0 THEN 1 ELSE reconnect_delay
    /\ subReqs' = << SubscribeCall >>
    /\ subscribed' = IF rc = 0 THEN c ELSE subscribed

\* on_connect(client, userdata, flags, rc, properties) of the subscriber:
\* `if rc == 0:` the flag, the delay and the subscription, `else:` the flag
sub_on_connect(rc, c) ==
    /\ connected' = (rc = 0)
    /\ reconnect_delay' = IF rc = 0 THEN 1 ELSE reconnect_delay
    /\ subReqs' = IF rc = 0 THEN << SubscribeCall >> ELSE << >>
    /\ subscribed' = IF rc = 0 THEN c ELSE subscribed

\* The broker's CONNACK with result 0 reaches client c's network loop, which
\* runs on_connect
RunAck(c) ==
    /\ IsPaho(impl) /\ pc # "run_exit"
    /\ clients[c].loop /\ clients[c].sock = "connecting"
    /\ clients' = [clients EXCEPT ![c].sock = "up"]
    /\ sub_on_connect(0, c)
    /\ UNCHANGED << idleVars, pc, caller, client, attempts, faults, timeVars, runFlags >>

\* The broker refuses the connection: CONNACK with a non-zero result
RunNack(c) ==
    /\ IsPaho(impl) /\ pc # "run_exit"
    /\ clients[c].loop /\ clients[c].sock = "connecting"
    /\ faults < MaxFaults /\ attempts < MaxRunAttempts
    /\ faults' = faults + 1
    /\ clients' = [clients EXCEPT ![c].sock = "closed"]
    /\ sub_on_connect(5, c)
    /\ UNCHANGED << idleVars, pc, caller, client, attempts, timeVars, runFlags >>

\* The connection of the NanoMQ client is lost; nothing notifies the subscriber
NanoConnLost ==
    /\ impl = "nano_sub" /\ pc # "run_exit"
    /\ clients[client].sock = "up"
    /\ faults < MaxFaults /\ attempts < MaxRunAttempts
    /\ now + RoomTicks <= MaxTime
    /\ clients' = [clients EXCEPT ![client].sock = "closed"]
    /\ faults' = faults + 1
    /\ UNCHANGED << idleVars, pc, caller, connected, reconnect_delay, client, attempts,
                    timeVars, subscribed, subReqs, runFlags >>

\* run(): `self.connect_with_retry()`, the initial connection
RunStart ==
    /\ pc = "idle"
    /\ pc' = "rc_test"
    /\ caller' = "run_init"
    /\ UNCHANGED << idleVars, connected, reconnect_delay, client, clients, attempts,
                    faults, timeVars, subscribed, subReqs, runFlags >>

\* `while not self.connected:` and, when the loop goes on, the attempt: Paho
\* makes a client, connects and starts its loop; NanoMQ connects and subscribes
RcTest ==
    /\ pc = "rc_test"
    /\ IF ~LoopContinues(connected)
         THEN /\ pc' = AfterCwr
              /\ UNCHANGED << connected, reconnect_delay, client, clients, attempts,
                              faults, subscribed, subReqs >>
         ELSE IF IsPaho(impl)
           THEN /\ attempts < MaxRunAttempts
                /\ attempts' = attempts + 1
                /\ client' = attempts + 1
                /\ clients' = [clients EXCEPT ![attempts + 1] =
                                 [loop |-> TRUE, sock |-> "connecting", disc |-> FALSE]]
                /\ pc' = "rc_wait"
                /\ UNCHANGED << connected, reconnect_delay, faults, subscribed, subReqs >>
           ELSE /\ attempts < MaxRunAttempts
                /\ attempts' = attempts + 1
                /\ \E out \in {"ok", "false"}, sub \in {"ok", "fail"} :
                     /\ out = "false" => (attempts + 1 < MaxRunAttempts /\ sub = "ok")
                     /\ sub = "fail" => /\ attempts + 1 < MaxRunAttempts /\ faults < MaxFaults
                                        /\ now + RoomTicks <= MaxTime
                     /\ faults' = IF sub = "fail" THEN faults + 1 ELSE faults
                     /\ IF out = "ok"
                          THEN /\ connected' = TRUE
                               /\ reconnect_delay' = 1
                               /\ clients' = [clients EXCEPT ![client].sock = "up"]
                               /\ subscribed' = IF sub = "ok" THEN client ELSE 0
                               /\ subReqs' = << SubscribeCall >>
                               /\ pc' = IF sub = "ok" THEN AfterCwr ELSE "rc_cleanup"
                          ELSE /\ pc' = "rc_cleanup"
                               /\ UNCHANGED << connected, reconnect_delay, clients,
                                               subscribed, subReqs >>
                /\ UNCHANGED client
    /\ UNCHANGED << idleVars, caller, timeVars, runFlags >>

\* The acknowledgement wait ends; `if self.connected: return True`, else the
\* timeout is raised
RcWaitEnd ==
    /\ pc = "rc_wait"
    /\ IF AckCheckPasses(connected)
         THEN pc' = AfterCwr
         ELSE /\ attempts < MaxRunAttempts
              /\ pc' = "rc_cleanup"
    /\ UNCHANGED << idleVars, caller, connected, reconnect_delay, client, clients,
                    attempts, faults, timeVars, subscribed, subReqs, runFlags >>

\* The subscriber's cleanup of the failed attempt, before the sleep
RcCleanup ==
    /\ pc = "rc_cleanup"
    /\ clients' = [clients EXCEPT ![client] =
                     [loop |-> FALSE, sock |-> "closed", disc |-> TRUE]]
    /\ pc' = "rc_sleep"
    /\ UNCHANGED << idleVars, caller, connected, reconnect_delay, client, attempts,
                    faults, timeVars, subscribed, subReqs, runFlags >>

\* `time.sleep(self.reconnect_delay)` is over, and the doubling
RcSleepEnd ==
    /\ pc = "rc_sleep"
    /\ reconnect_delay' = Backoff(reconnect_delay)
    /\ pc' = "rc_test"
    /\ UNCHANGED << idleVars, caller, connected, client, clients, attempts, faults,
                    timeVars, subscribed, subReqs, runFlags >>

\* NanoMQ run(): `self.running = True`, `self.client.start_message_loop()`
RunStartLoop ==
    /\ pc = "run_startloop"
    /\ running' = TRUE
    /\ msgLoop' = TRUE
    /\ pc' = "mon_test"
    /\ UNCHANGED << idleVars, caller, connected, reconnect_delay, client, clients,
                    attempts, faults, timeVars, subscribed, subReqs, interrupted >>

\* NanoMQ run(): `while self.running and self.connected:`
MonTest ==
    /\ pc = "mon_test"
    /\ pc' = IF running /\ connected THEN "mon_check" ELSE "run_finally"
    /\ UNCHANGED << idleVars, caller, connected, reconnect_delay, client, clients,
                    attempts, faults, timeVars, subscribed, subReqs, runFlags >>

\* a check that asks for staleness and a backend that reports not connected
ForcesReconnectWhenStale(i) == Stale /\ ~BackendUp

\* The periodic check.  Paho monitor_connection: `if not self.connected:`.
\* NanoMQ run(): `if time.time() - self.last_message_time > 120:` and
\* `if not self.client.is_connected():`
ForcesReconnect(i) == IF IsPaho(i) THEN ~connected ELSE Stale /\ ~BackendUp

\* One periodic check of the supervision loop
MonCheck ==
    /\ pc = "mon_check"
    /\ IF ForcesReconnect(impl)
         THEN /\ connected' = FALSE
              /\ pc' = "rc_test"
              /\ caller' = "monitor"
         ELSE /\ pc' = "mon_sleep"
              /\ UNCHANGED << connected, caller >>
    /\ UNCHANGED << idleVars, reconnect_delay, client, clients, attempts, faults,
                    timeVars, subscribed, subReqs, runFlags >>

\* `time.sleep(10)` of the supervision loop is over
MonSleepEnd ==
    /\ pc = "mon_sleep"
    /\ pc' = IF IsPaho(impl) THEN "mon_check" ELSE "mon_test"
    /\ UNCHANGED << idleVars, caller, connected, reconnect_delay, client, clients,
                    attempts, faults, timeVars, subscribed, subReqs, runFlags >>

\* KeyboardInterrupt is raised in the control thread.  The initial
\* connect_with_retry (and NanoMQ's start of the message loop) stands before
\* run()'s try, where nothing catches it; in the supervision loop it reaches
\* `except KeyboardInterrupt` and then run()'s finally.  The bare `except:` around
\* the NanoMQ subscriber's cleanup swallows it.
Interrupt ==
    /\ ~interrupted
    /\ pc \in RunCwrPcs \cup MonPcs \cup {"run_startloop"}
    /\ interrupted' = TRUE
    /\ pc' = IF impl = "nano_sub" /\ pc = "rc_cleanup" THEN pc
             ELSE IF caller = "run_init" /\ pc \in RunCwrPcs \cup {"run_startloop"}
                    THEN "run_exit"
                    ELSE "run_finally"
    /\ UNCHANGED << idleVars, caller, connected, reconnect_delay, client, clients,
                    attempts, faults, timeVars, subscribed, subReqs, running, msgLoop >>

\* The `try:` that catches Exception is inside the supervision loop: Paho
\* monitor_connection has `while True: try: ... except Exception as e:` with a
\* sleep of 10 s in the handler; NanoMQ run() has `try: while ...: ... except
\* Exception as e:`, the loop inside the try
TryInsideLoop(i) == IsPaho(i)

\* A statement of one iteration of the supervision loop raises an exception
\* that is no KeyboardInterrupt (is_connected() of the binding, for one).  It
\* is logged; with the try inside the loop the handler sleeps and the loop
\* goes on, otherwise the loop is left and run()'s finally follows.
MonRaise ==
    /\ pc \in MonPcs
    /\ faults < MaxFaults
    /\ faults' = faults + 1
    /\ pc' = IF TryInsideLoop(impl) THEN "mon_sleep" ELSE "run_finally"
    /\ UNCHANGED << idleVars, caller, connected, reconnect_delay, client, clients,
                    attempts, timeVars, subscribed, subReqs, runFlags >>

\* run()'s finally.  Paho: `if self.client:` loop_stop(), disconnect().  NanoMQ:
\* running = False, stop_message_loop(), `if self.connected:` disconnect(),
\* connected = False
RunFinally ==
    /\ pc = "run_finally"
    /\ pc' = "run_exit"
    /\ IF IsPaho(impl)
         THEN /\ clients' = IF client # 0
                              THEN [clients EXCEPT ![client] =
                                      [loop |-> FALSE, sock |-> "closed", disc |-> TRUE]]
                              ELSE clients
              /\ UNCHANGED << connected, running, msgLoop >>
         ELSE /\ running' = FALSE
              /\ msgLoop' = FALSE
              /\ clients' = IF connected
                              THEN [clients EXCEPT ![client].sock = "closed"]
                              ELSE clients
              /\ connected' = FALSE
    /\ UNCHANGED << idleVars, caller, reconnect_delay, client, attempts, faults,
                    timeVars, subscribed, subReqs, interrupted >>

SubControl ==
    \/ RunStart
    \/ RcTest
    \/ RcWaitEnd
    \/ RcCleanup
    \/ RcSleepEnd
    \/ RunStartLoop
    \/ MonTest
    \/ MonCheck
    \/ MonSleepEnd
    \/ RunFinally

SubNext ==
    \/ SubControl
    \/ \E c \in ClientIds : RunAck(c)
    \/ \E c \in ClientIds : RunNack(c)
    \/ \E c \in ClientIds : ConnLost(c)
    \/ NanoConnLost
    \/ \E k \in MsgKinds : Deliver(k)
    \/ Tick
    \/ Interrupt
    \/ MonRaise

SubSpec == SubInit /\ [][SubNext]_vars

\* The control thread keeps running, a CONNACK the broker sent is delivered,
\* and time passes
FairSubSpec ==
    /\ SubSpec
    /\ WF_vars(SubControl)
    /\ \A c \in ClientIds : WF_vars(RunAck(c))
    /\ WF_vars(Tick)

(***************************************************************************)
(* Claims                                                                  *)
(***************************************************************************)
\* min(1 * 2^(N-1), 60): the delay the N-th consecutive failure is to sleep
NthDelay(n) == Min(initial_reconnect_delay * Pow2(n - 1), max_reconnect_delay)

SleepBegins == pc = "cwr_sleep" /\ pc' = "cwr_sleeping"

Returned == retval # "none"

\* C1: in every implementation the N-th backoff sleep of a run of consecutive
\* failed attempts since construction or the last successful connect lasts
\* min(2^(N-1), 60) seconds; in particular the first failure after a successful
\* connect sleeps 1 second.
C1_NthSleepIsPowerOfTwo ==
    [][SleepBegins => reconnect_delay = NthDelay(nsleep + 1)]_vars

\* A successful connect: on_connect with result 0, or NanoMQ's connect returning True
SuccessfulConnect ==
    \/ \E c \in ClientIds : clients[c].sock = "connecting" /\ clients'[c].sock = "up"
    \/ (~IsPaho(impl) /\ pc = "cwr_test" /\ connected')

\* C2: reconnect_delay is always in [1, 60], and it changes only to
\* min(delay*2, 60) in the doubling step of a failed attempt and to 1 on a
\* successful connect (so it never decreases between two successful connects).
C2_DelayRangeAndSteps ==
    /\ [](reconnect_delay \in initial_reconnect_delay..max_reconnect_delay)
    /\ [][reconnect_delay' # reconnect_delay =>
            \/ (SuccessfulConnect /\ reconnect_delay' = 1)
            \/ (pc = "cwr_dbl" /\ reconnect_delay' = Min(reconnect_delay * 2, 60))]_vars

\* What holds of C2 on the code: the range, and every decrease is the reset of a
\* successful connect.
DelayInRange == reconnect_delay \in initial_reconnect_delay..max_reconnect_delay

DelayMonotoneBetweenSuccesses ==
    [][reconnect_delay' < reconnect_delay => (SuccessfulConnect /\ reconnect_delay' = 1)]_vars

C6_ReturnsWithDelayReset == (IsPaho(impl) /\ Returned) => retDelay = 1

\* C7: on every failed attempt the cleanup of the client (loop_stop, disconnect)
\* has run before the backoff sleep of that attempt begins.
C7_CleanupBeforeSleep == pc = "cwr_sleeping" => cleaned

\* C8: publish entered with connected False calls connect_with_retry exactly
\* once and calls the backend only after it returned; entered with connected
\* True it does not call connect_with_retry.
C8_PublishConnectsFirst ==
    /\ pc \in {"pub_send", "pub_done"} => pubCwrCalls = (IF pubEntryConn THEN 0 ELSE 1)
    /\ (pc \in {"pub_send", "pub_done"} /\ ~pubEntryConn) => Returned
    /\ (InCwr /\ caller = "publish") => (handoffs = << >> /\ pubCwrCalls = 1 /\ ~pubEntryConn)

C8_Witness == pc = "pub_done" /\ ~pubEntryConn /\ Len(handoffs) = 1 /\ attempts >= 2

\* C9: publish returns True exactly when the backend call reported success; when
\* the backend reports failure or raises, publish returns False and leaves
\* connected False.
C9_PublishResult ==
    [][(pc = "pub_send" /\ pc' # pc) =>
          /\ pc' = "pub_done"
          /\ pubResult' \in {"True", "False"}
          /\ (pubResult' = "True") <=> (pubOutcome' = "ok")
          /\ pubOutcome' \in {"fail", "raise"} => ~connected']_vars

C9_Witness == pc = "pub_done" /\ pubOutcome = "raise" /\ pubResult = "False" /\ ~connected

\* C10: a publish call makes at most one backend publish call, with the message
\* unmodified, on the configured topic, at QoS 1.
C10_OneHandoffQoS1 ==
    /\ Len(handoffs) <= 1
    /\ pc = "pub_done" => handoffs = << [topic |-> Topic, payload |-> pubMsg, qos |-> 1] >>
    /\ pc # "pub_done" => handoffs = << >>

C10_Witness == pc = "pub_done" /\ pubMsg = "m2" /\ Len(handoffs) = 1 /\ pubCwrCalls = 1

\* C5: under fair scheduling, with a broker that from some point on acknowledges,
\* every call of connect_with_retry returns with connected True.
C5_EventuallyReturnsConnected == InCwr ~> (Returned /\ retConn)

C5_Witness == pc = "cwr_ret" /\ retConn /\ nsleep = 0 /\ attempts = MaxAttempts

CloseStep == closeCalls' = closeCalls + 1

PublisherState == << connected, reconnect_delay, client, clients >>

\* C11: close() never raises, in any state and with a failing backend, and a
\* call of close() after the first leaves the publisher's state as it is.
C11_CloseIdempotentNeverRaises ==
    [][CloseStep => /\ ~closeRaised'
                    /\ closeCalls >= 1 => UNCHANGED PublisherState]_vars

\* What holds of C11 on the code: while no backend call of close() has raised,
\* a call after the first changes nothing.
CloseIdempotentWithoutFailure ==
    [][(CloseStep /\ closeCalls >= 1 /\ ~closeRaised') => UNCHANGED PublisherState]_vars

\* C12: at most 3 publish calls for an event; the sleeps between them are 2 s
\* after the first failure and 4 s after the second, in that order, so k - 1
\* sleeps when attempt k is the first to succeed; no sleep after a third failure.
C12_RetryLadder ==
    /\ pubTries <= 3
    /\ waits \in {<< >>, << 2 >>, << 2, 4 >>}
    /\ published => (pubTries >= 1 /\ Len(waits) = pubTries - 1)
    /\ retry_count = 3 => (pubTries = 3 /\ waits = << 2, 4 >> /\ pc # "pl_sleep")

C12_Witness == pc = "pl_while" /\ published /\ pubTries = 3 /\ waits = << 2, 4 >>

\* a KeyboardInterrupt or an unexpected exception ends the loop in this step
Cancelled == \E kind \in {"KeyboardInterrupt", "Exception"} : PlInterrupt(kind)

\* C13: an event whose 3 publish attempts all failed is dropped: no publish is
\* made for it again, process_logs goes on to read the next line, and the loop
\* over the input is left only where it reads the input, unless an exception
\* that is no publish failure ends it.
C13_DropAndContinue ==
    /\ [][(pc = "pl_while" /\ retry_count = max_retries /\ ~published /\ pc' # pc
              /\ ~Cancelled)
            => (pc' = "pl_read" /\ lineNo \in dropped')]_vars
    /\ [][pubTries' = pubTries + 1 => lineNo \notin dropped]_vars
    /\ [][(pc' = "pl_finally" /\ pc # "pl_finally") => (pc = "pl_read" \/ Cancelled)]_vars
    /\ [](\A l \in dropped : l <= lineNo)

C13_Witness == pc = "pl_publish" /\ lineNo = 2 /\ 1 \in dropped

Delivery == \E k \in MsgKinds : Deliver(k)

\* C14: for a payload that decodes to a JSON object the handler calls the alert
\* callback exactly once if the object holds the rule's key with the rule's
\* value, and not at all, raising nothing, if the key is absent or the value
\* differs.
C14_AlertExactlyOnMatch ==
    msgKind \in {"match", "differ", "absent"} =>
        /\ bells = (IF msgKind = "match" THEN 1 ELSE 0)
        /\ ~msgEscaped

\* C15: for a payload that is no JSON no exception leaves the handler and the
\* alert callback is not called, in all three subscribers.
C15_MalformedContained == msgKind = "malformed" => (~msgEscaped /\ bells = 0)

\* What holds of C14 and C15 on the code: both, in the two modules that import json.
HandlerRightWhereJsonImported ==
    (HasJson(srcmod) /\ msgKind # "none") =>
        /\ bells = (IF RuleMatches(msgKind) THEN 1 ELSE 0)
        /\ ~msgEscaped

\* C16: handling an inbound message of any kind leaves connected,
\* reconnect_delay and the client reference as they were.
C16_HandlerKeepsConnectionState ==
    [][Delivery => UNCHANGED << connected, reconnect_delay, client >>]_vars

C16_Witness == msgKind = "malformed" /\ connected /\ client # 0 /\ pc = "mon_sleep"

\* C17: every delivery sets last_message_time to the time of the delivery,
\* whatever the message, and nothing else changes last_message_time.
C17_StampOnEveryDelivery ==
    /\ [][Delivery => last_message_time' = now]_vars
    /\ [][last_message_time' # last_message_time => Delivery]_vars

C17_Witness == msgKind = "absent" /\ last_message_time = now /\ now >= 2

\* C18: a periodic check of the supervision loop forces connect_with_retry
\* exactly when more than 120 s have passed since last_message_time and the
\* backend reports not connected.
C18_StaleCheck ==
    [][(pc = "mon_check" /\ pc' \in {"rc_test", "mon_sleep"})
          => ((pc' = "rc_test") <=> (Stale /\ ~BackendUp))]_vars

\* What holds of C18 on the code: the NanoMQ subscriber's check.
NanoStaleCheck ==
    [][(impl = "nano_sub" /\ pc = "mon_check" /\ pc' \in {"rc_test", "mon_sleep"})
          => ((pc' = "rc_test") <=> (Stale /\ ~BackendUp))]_vars

LostInLoop == pc \in MonPcs /\ ~BackendUp

Resubscribed == connected /\ BackendUp /\ subscribed = client

\* C19: a connection lost while run() is in its supervision loop leads, with no
\* cancellation, to connect_with_retry and to a subscriber that is connected
\* and subscribed again.
C19_ReconnectsAfterLoss == LostInLoop ~> (Resubscribed \/ interrupted)

\* What holds of C19 on the code: the NanoMQ subscriber reconnects.
NanoReconnectsAfterLoss ==
    (impl = "nano_sub" /\ LostInLoop) ~> (Resubscribed \/ interrupted)

\* C20: when KeyboardInterrupt has ended run(), the client's loop is stopped
\* and the client is disconnected.
C20_InterruptStopsAndDisconnects ==
    (pc = "run_exit" /\ interrupted) =>
        /\ ~msgLoop
        /\ client # 0 => (~clients[client].loop /\ clients[client].sock \notin {"connecting", "up"})

\* What holds of C20 on the code: run()'s finally, which an interrupt in the
\* supervision loop reaches, stops the loop and disconnects.
FinallyCleansUp ==
    [][(pc = "run_finally" /\ pc' = "run_exit") =>
          /\ ~msgLoop'
          /\ client # 0 => (~clients'[client].loop /\ clients'[client].sock \notin {"connecting", "up"})]_vars

\* C23: every acknowledgement with result 0 leaves the subscriber connected,
\* with reconnect_delay 1 and exactly one subscribe call, for its topic at
\* QoS 1; every acknowledgement with another result leaves it not connected
\* and makes no subscribe call.
C23_AckSubscribesOnce ==
    [][\A c \in ClientIds :
         /\ RunAck(c) => (connected' /\ reconnect_delay' = 1
                          /\ subReqs' = << [topic |-> Topic, qos |-> 1] >>)
         /\ RunNack(c) => (~connected' /\ subReqs' = << >>)]_vars

C23_Witness ==
    /\ impl = "paho_sub" /\ connected /\ reconnect_delay = 1 /\ attempts = 2
    /\ faults = 1 /\ Len(subReqs) = 1 /\ subscribed = client

\* a successful connect acknowledgement: on_connect with result 0, or the
\* NanoMQ client's connect() answering True inside connect_with_retry
AckSuccessStep ==
    \/ \E c \in ClientIds : AckOk(c)
    \/ ~IsPaho(impl) /\ pc = "cwr_test"

\* a disconnect notification: on_disconnect run by a network loop, or by
\* disconnect() in the cleanup of a failed attempt
DisconnectNoticeStep ==
    \/ \E c \in ClientIds : ConnLost(c)
    \/ IsPaho(impl) /\ pc = "cwr_cleanup"

\* C24: connected becomes True only by a successful connect acknowledgement of
\* an attempt in progress and becomes False only by a disconnect notification;
\* publish, message handling, close and the supervision check leave it alone.
C24_ConnectedOnlyByCallbacks ==
    [][/\ (~connected /\ connected') => (AckSuccessStep /\ InCwr)
       /\ (connected /\ ~connected') => DisconnectNoticeStep]_vars

\* What holds of C24 on the code: connected becomes True only by a successful
\* acknowledgement, and becomes False by a notification, by a refused
\* acknowledgement or by a failed publish.
ConnectedWriters ==
    [][/\ (~connected /\ connected') => AckSuccessStep
       /\ (connected /\ ~connected') =>
             \/ DisconnectNoticeStep
             \/ \E c \in ClientIds : AckRefused(c)
             \/ pc = "pub_send" /\ ~PublishSucceeded(pubOutcome')]_vars

\* C25: a disconnect notification delivered in any state leaves connected
\* False and reconnect_delay as it was.
C25_DisconnectClearsFlag ==
    [][\A c \in ClientIds :
         ConnLost(c) => (~connected' /\ reconnect_delay' = reconnect_delay)]_vars

\* What holds of C25 on the code: the publisher's on_disconnect.
PublisherDisconnectClearsFlag ==
    [][\A c \in ClientIds :
         (ConnLost(c) /\ IsPublisher(impl)) =>
             (~connected' /\ reconnect_delay' = reconnect_delay)]_vars

\* client c holds no live connection: its loop is stopped and its socket is
\* neither connecting nor connected
Retired(c) == ~clients[c].loop /\ clients[c].sock \notin {"connecting", "up"}

\* C29: whenever connect_with_retry creates a new backend client, every client
\* created earlier has had its loop stopped and has been disconnected.
C29_OneLiveClient ==
    [][client' # client => \A c \in 1..attempts : Retired(c)]_vars

\* What holds of C29 on the code: inside one call of the Paho publisher, the
\* client of an attempt that failed is retired before the next attempt, while
\* no cleanup call raises.
FailedAttemptRetired ==
    [][(impl = "paho_pub" /\ client' # client /\ cleaned /\ faults = 0)
          => Retired(client)]_vars

\* C30: connected is True only while the client self.client refers to holds an
\* acknowledged connection, and a callback of a superseded client changes
\* neither connected nor reconnect_delay.
C30_FlagFollowsCurrentClient ==
    /\ [](connected => (client # 0 /\ clients[client].sock = "up"))
    /\ [][\A c \in ClientIds :
            (c # client /\ (AckOk(c) \/ AckRefused(c) \/ ConnLost(c)))
               => UNCHANGED << connected, reconnect_delay >>]_vars

\* the publish calls of process_logs made before the q-th have brought the
\* event of line i to its end: a success, or max_retries failures
FinishedBefore(i, q) ==
    \/ \E p \in 1..(q - 1) : pubLog[p].line = i /\ pubLog[p].ok
    \/ Cardinality({p \in 1..(q - 1) : pubLog[p].line = i}) = max_retries

\* C27: the publish calls of process_logs come in the order of the lines; all
\* calls for the event of one line are over, by success or by giving up,
\* before the first call for a later line, so the successful calls reach the
\* backend in the order of the lines.
C27_PublishInLineOrder ==
    \A p, q \in 1..Len(pubLog) :
        p < q =>
          /\ pubLog[p].line <= pubLog[q].line
          /\ pubLog[p].line < pubLog[q].line => FinishedBefore(pubLog[p].line, q)
          /\ pubLog[p].ok => pubLog[p].line < pubLog[q].line

C27_Witness ==
    /\ Len(pubLog) = 3
    /\ pubLog[1] = [line |-> 1, ok |-> FALSE]
    /\ pubLog[2] = [line |-> 1, ok |-> TRUE]
    /\ pubLog[3] = [line |-> 2, ok |-> TRUE]

\* the line holds `to "` followed by a character that is not "-"
NamedMarkerAt(l, i) ==
    /\ i + 4 <= Len(l)
    /\ l[i] = "t" /\ l[i + 1] = "o" /\ l[i + 2] = " " /\ l[i + 3] = "\""
    /\ l[i + 4] # "-"

HasNamedMarker(l) == \E i \in 1..Len(l) : NamedMarkerAt(l, i)

\* the text of l from position j up to the first "-", or to the end
IsTextUpToDash(t, l, j) ==
    /\ j + Len(t) - 1 <= Len(l)
    /\ t = SubSeq(l, j, j + Len(t) - 1)
    /\ \A k \in 1..Len(t) : t[k] # "-"
    /\ (j + Len(t) <= Len(l) => l[j + Len(t)] = "-")

\* the body of the for loop has dealt with the line
LineHandled == pc \in {"pl_read", "pl_publish"}

\* C26: process_logs attempts a publish for a line if and only if the line
\* holds the marker `to "` followed by a character other than "-"; a line
\* without it passes with no publish; the payload of a matching line carries
\* the text after the marker up to the first "-" as current_desktop and a
\* non-empty timestamp.
C26_ExtractsDesktop ==
    LineHandled =>
        /\ (Len(offered) = 1) <=> HasNamedMarker(line)
        /\ ~HasNamedMarker(line) => (offered = << >> /\ pc = "pl_read")
        /\ HasNamedMarker(line) =>
             /\ offered[1].timestamp # ""
             /\ \E i \in 1..Len(line) :
                  /\ NamedMarkerAt(line, i)
                  /\ \A h \in 1..(i - 1) : ~NamedMarkerAt(line, h)
                  /\ IsTextUpToDash(offered[1].current_desktop, line, i + 4)

C26_Witness ==
    /\ pc = "pl_publish"
    /\ line = Marker \o << "-" >> \o Marker \o << "a" >>
    /\ offered[1].current_desktop = << "a" >>

FactoryCall == request.op \in {"create_publisher", "create_subscriber"}

\* C21: create_publisher and create_subscriber called with a name outside the
\* supported set end with ValueError, with no object returned, no backend
\* client constructed and no connection attempt made.
C21_UnsupportedNameRejected ==
    (FactoryCall /\ ~(\E k \in 1..Len(get_supported_clients) :
                         get_supported_clients[k] = request.name)) =>
        /\ raisedErr = "ValueError"
        /\ made = NoObject
        /\ backends = 0
        /\ attempts = 0

C21_Witness ==
    /\ request.op = "create_subscriber" /\ request.name = "mosquitto"
    /\ raisedErr = "ValueError"

\* the class of the backend `name` for the call `op`
BackendClass(name, op) ==
    CASE name = "paho" /\ op = "create_publisher" -> "PahoMQTTPublisher"
      [] name = "paho" /\ op = "create_subscriber" -> "PahoMQTTSubscriber"
      [] name = "nanomq" /\ op = "create_publisher" -> "NanoMQTTPublisher"
      [] OTHER -> "NanoMQTTSubscriber"

\* the object carries exactly what the call was given
CarriesRequest ==
    /\ made.broker = request.broker /\ made.port = request.port
    /\ made.topic = request.topic /\ made.key = request.key
    /\ made.value = request.value /\ made.bell_func = request.bell_func

\* C22: the name of every backend the repository implements, paho and nanomq,
\* is in get_supported_clients(), and create_publisher / create_subscriber
\* with such a name return an instance of that backend's class that carries
\* the given arguments.
C22_ImplementedBackendsCreatable ==
    (FactoryCall /\ request.name \in ImplementedBackends) =>
         /\ \A n \in ImplementedBackends :
              \E k \in 1..Len(get_supported_clients) : get_supported_clients[k] = n
         /\ raisedErr = "none"
         /\ made.cls = BackendClass(request.name, request.op)
         /\ CarriesRequest

\* What holds of C22 on the code: the paho backend.
PahoBackendCreatable ==
    /\ \E k \in 1..Len(get_supported_clients) : get_supported_clients[k] = "paho"
    /\ (FactoryCall /\ request.name = "paho") =>
         /\ raisedErr = "none"
         /\ made.cls = BackendClass(request.name, request.op)
         /\ CarriesRequest

\* C28: constructing a NanoMQ publisher or subscriber where the bindings are
\* not available ends with RuntimeError in the constructor: no object, no
\* backend client, no connection attempt.
C28_NoBindingsFailsFast ==
    (request.op \in {"NanoMQTTPublisher", "NanoMQTTSubscriber"} /\ ~nanoAvailable) =>
        /\ raisedErr = "RuntimeError"
        /\ made = NoObject
        /\ backends = 0
        /\ attempts = 0

C28_Witness ==
    /\ request.op = "NanoMQTTSubscriber" /\ ~nanoAvailable
    /\ raisedErr = "RuntimeError" /\ backends = 0

\* connect_with_retry hands control back to its caller in this step
CwrReturnStep == InCwr /\ pc' \in {"cwr_ret", "pub_send"}

\* C31: when the Paho connect_with_retry returns, the client self.client
\* refers to is live: its network loop runs and neither loop_stop nor
\* disconnect has been called on it, whenever the acknowledgement arrived.
C31_ReturnsWithLiveClient ==
    [][(IsPaho(impl) /\ CwrReturnStep) =>
          (client' # 0 /\ clients'[client'].loop /\ ~clients'[client'].disc)]_vars

\* What holds of C31 on the code: a return made by `return True`, after the
\* acknowledgement check, by a publisher.
ReturnTrueWithLiveClient ==
    [][(impl = "paho_pub" /\ CwrReturnStep /\ retval' = "True") =>
          (client' # 0 /\ clients'[client'].loop /\ ~clients'[client'].disc)]_vars

\* C33: every return of connect_with_retry delivers True, never False or None.
C33_AlwaysReturnsTrue == retval \in {"none", "True"}

\* What holds of C33 on the code: False is never delivered, and None is
\* delivered only by the loop test ending the loop.
ReturnsTrueOrNone ==
    /\ retval \in {"none", "True", "None"}
    /\ [][(CwrReturnStep /\ retval' = "None") => pc = "cwr_test"]_vars

\* NanoMQTTSubscriber.connect_with_retry hands control back to run() in this step
NanoCwrReturnStep ==
    impl = "nano_sub" /\ pc \in RunCwrPcs /\ pc' \in {"mon_sleep", "run_startloop"}

\* the client is connected and subscribed to the configured topic at QoS 1
ConnectedAndSubscribed ==
    /\ connected /\ BackendUp
    /\ subscribed = client /\ subReqs = << SubscribeCall >>

\* C32: when NanoMQTTSubscriber.connect_with_retry returns, the client is
\* connected and subscribed to the topic at QoS 1; an attempt whose subscribe
\* failed counts as failed: connected is False after its backoff sleep, so that
\* another attempt is made.
C32_NanoReturnsSubscribed ==
    /\ [][NanoCwrReturnStep => ConnectedAndSubscribed']_vars
    /\ [][(impl = "nano_sub" /\ pc = "rc_sleep" /\ pc' = "rc_test") => ~connected']_vars

\* What holds of C32 on the code: the return made by `return True`, in the
\* attempt itself.
NanoReturnTrueSubscribed ==
    [][(NanoCwrReturnStep /\ attempts' # attempts) => ConnectedAndSubscribed']_vars

\* C34: an exception raised by loop_stop or disconnect while a failed attempt is
\* torn down never leaves connect_with_retry, and the loop goes on: the teardown
\* is followed by the loop test, which starts the next attempt when connected
\* is False.
C34_TeardownErrorsContained ==
    /\ [](pc # "cwr_raised")
    /\ [][(pc = "cwr_cleanup" /\ faults' # faults) => (InCwr' /\ retval' = retval)]_vars
    /\ (pc = "cwr_cleanup") ~> (pc = "cwr_test")
    /\ [][(pc = "cwr_test" /\ ~connected /\ pc' # pc) => attempts' = attempts + 1]_vars

\* attempt 2 of the publisher is under way after the teardown of attempt 1, in
\* which loop_stop() raised: client 1 was left with its loop running
C34_Witness ==
    /\ impl = "paho_pub" /\ pc = "cwr_wait" /\ attempts = 2 /\ nsleep = 1 /\ faults = 1
    /\ clients[1].loop /\ ~clients[1].disc /\ clients[1].sock = "connecting"

\* the publish calls made for the event of line i that returned True
OkCalls(i) == {p \in 1..Len(pubLog) : pubLog[p].line = i /\ pubLog[p].ok}

\* the prints of the name of the event of line i
Prints(i) == {p \in 1..Len(printed) : printed[p] = i}

\* C37: once publish has returned True for an event, process_logs makes no
\* further publish call for it; the name of an event is printed exactly once
\* if it was published, and never if it was dropped.
C37_NoDuplicateSends ==
    \A i \in 1..MaxLines :
       /\ \A p \in OkCalls(i) : \A q \in (p + 1)..Len(pubLog) : pubLog[q].line # i
       /\ Cardinality(OkCalls(i)) <= 1
       /\ Cardinality(Prints(i)) = Cardinality(OkCalls(i))
       /\ i \in dropped => Prints(i) = {}

\* the event of line 1 was dropped after three failures, that of line 2 was
\* published at its second attempt and printed
C37_Witness ==
    /\ pc = "pl_done" /\ dropped = {1} /\ printed = << 2 >>
    /\ Len(pubLog) = 5 /\ pubLog[5] = [line |-> 2, ok |-> TRUE]

\* the statements of process_logs, from its entry to the end of the `finally:`
PlPcs == PlGuardedPcs \cup {"pl_connect", "pl_finally"}

\* C35: on every way out of process_logs (end of input, KeyboardInterrupt,
\* unexpected exception, also a cancellation during the initial
\* connect_with_retry or during a backoff sleep) the publisher has been closed
\* exactly once: the step that leaves is the one call of close().
C35_ClosedOnEveryExit ==
    [][(pc \in PlPcs /\ pc' \notin PlPcs) => (closeCalls = 0 /\ closeCalls' = 1)]_vars

\* What holds of C35 on the code: whatever ends the statements inside the
\* `try:` is followed by the `finally:`, which calls close() once.
GuardedExitCloses ==
    /\ [][(pc \in PlGuardedPcs /\ pc' \notin PlGuardedPcs) => pc' = "pl_finally"]_vars
    /\ [][(pc = "pl_finally" /\ pc' # pc) => (closeCalls = 0 /\ closeCalls' = 1)]_vars

\* the payload handled last was decoded by json.loads
Decoded == HasJson(srcmod) /\ msgKind # "none" /\ Decodes(msgKind)

\* C38: an exception raised while a successfully decoded message is processed
\* (the payload is JSON but no object, or the alert callback raises) does not
\* leave the handler, and for a payload that is no object no alert fires.
C38_DecodedMessageErrorsContained ==
    (Decoded /\ (~IsObject(msgKind) \/ BellRaises(msgKind))) =>
        /\ ~msgEscaped
        /\ ~IsObject(msgKind) => bells = 0
        /\ IsPaho(impl) => \A c \in 1..attempts : clients[c].sock = "up" => clients[c].loop

\* found-him.py handled a JSON list that holds the key: the test is True and
\* the lookup raised TypeError
C38_Witness ==
    /\ srcmod = "found_him" /\ msgKind = "list" /\ last_message_time = now /\ now >= 1
    /\ subscribed # 0 /\ clients[subscribed].loop

\* C36: an unexpected exception (no cancellation) raised inside one iteration
\* of the subscriber's supervision loop is logged and the loop goes on with the
\* next periodic check; it does not end run(), in the Paho and in the NanoMQ
\* subscriber.
C36_LoopSurvivesException ==
    [][MonRaise => (pc' \in MonPcs /\ running' = running /\ msgLoop' = msgLoop)]_vars

\* What holds of C36 on the code: the Paho supervision loop goes on.
PahoLoopSurvivesException ==
    [][(IsPaho(impl) /\ MonRaise) => pc' = "mon_sleep"]_vars

\* the caller of get_supported_clients changes the list it was given
MutateStep == \E how \in {"append", "clear"}, n \in ClientNames : MutateReturned(how, n)

\* C40: the registered backend set is never changed: SUPPORTED_CLIENTS keeps
\* its elements through every factory operation, and changing the list that
\* get_supported_clients() returned does not change which names
\* create_publisher / create_subscriber accept.
C40_RegistryNeverMutated ==
    /\ [](lists["attr"] = SUPPORTED_CLIENTS)
    /\ [][MutateStep => \A name \in ClientNames : IsSupported(name)' = IsSupported(name)]_vars
    /\ [](FactoryCall => (raisedErr = "none" <=> request.name = "paho"))

\* "nanomq" was appended to the list get_supported_clients() returned, and
\* create_publisher("nanomq", ...) is rejected
C40_Witness ==
    /\ held = "copy" /\ lists["copy"] = << "paho", "nanomq" >>
    /\ request.op = "create_publisher" /\ request.name = "nanomq"
    /\ raisedErr = "ValueError"

\* the calls of func that ended with an exception of the `exceptions` tuple
Failures == {i \in 1..Len(outcomes) : outcomes[i] = "retryable"}

\* the calls, the result and the exceptions of the wrapper, without the lengths
\* of the sleeps: at most max_retries + 1 calls; the first call that returns
\* ends the wrapper, with no call after it; every failure but number
\* max_retries + 1 is followed by one sleep; failure number max_retries + 1 is
\* re-raised with no sleep; another exception leaves at once
RetryCalls ==
    rbOut # "idle" =>
        /\ Len(outcomes) <= rbArgs.max_retries + 1
        /\ \A i \in 1..(Len(outcomes) - 1) : outcomes[i] = "retryable"
        /\ rbOut = "returned" <=> (outcomes # << >> /\ outcomes[Len(outcomes)] = "ok")
        /\ rbOut = "propagated" <=> (outcomes # << >> /\ outcomes[Len(outcomes)] = "other")
        /\ rbOut = "raised" <=>
              (outcomes # << >> /\ Cardinality(Failures) = rbArgs.max_retries + 1)
        /\ rbOut \in {"raised", "propagated"} => rbExc = Len(outcomes)
        /\ Len(sleeps) = Cardinality(Failures) - (IF rbOut = "raised" THEN 1 ELSE 0)
        /\ rbOut = "runtime_error" => (outcomes = << >> /\ rbArgs.max_retries < 0)

\* C39: the wrapped function is called at most max_retries + 1 times; the
\* first successful call ends the wrapper; after failure i (i = 1..max_retries)
\* the wrapper sleeps min(initial_delay * backoff_factor^(i-1), max_delay);
\* failure number max_retries + 1 is re-raised without a sleep; an exception
\* not in `exceptions` propagates at once.
C39_RetryWithBackoff ==
    /\ RetryCalls
    /\ \A i \in 1..Len(sleeps) :
          sleeps[i] = Min(rbArgs.initial_delay * Pow(rbArgs.backoff_factor, i - 1),
                          rbArgs.max_delay)

\* What holds of C39 on the code: the calls and the exceptions in every case,
\* and the lengths of the sleeps when initial_delay is at most max_delay.
RetryWithBackoffUnderCap ==
    /\ RetryCalls
    /\ rbArgs.initial_delay <= rbArgs.max_delay =>
          \A i \in 1..Len(sleeps) :
             sleeps[i] = Min(rbArgs.initial_delay * Pow(rbArgs.backoff_factor, i - 1),
                             rbArgs.max_delay)

====
